---- MODULE Spec2Model ----
(***************************************************************************)
(* Model of the language-model dispatch layer of ai-chatbot:               *)
(*   lib/ai/index.ts  createProviderModel (provider resolution by prefix)  *)
(*                    customModel (resolution + middleware wrapping)       *)
(*                    imageGenerationModel (exported image model)          *)
(* of its logger:                                                          *)
(*   lib/utilities/logger.ts  getLogLevel, createLogger                    *)
(* of the model catalog:                                                   *)
(*   lib/ai/models.ts  models, DEFAULT_MODEL_NAME                          *)
(* and of the upload route (FileSchema, POST).                             *)
(* Strings are sequences of one-character strings, so that startsWith and  *)
(* replace are computed character by character as String.prototype does.   *)
(***************************************************************************)
EXTENDS Integers, Sequences, FiniteSets, TLC

VARIABLES
    resolved,         \* the last createProviderModel call: its argument and what it did
    remembered,       \* an earlier createProviderModel call, kept for comparison
    customMiddleware, \* the process-wide middleware configuration (./custom-middleware)
    handle,           \* the wrapped model customModel returned last, or None
    pc,               \* "idle", "down", "up", "open" or "done": where the call in flight is
    op,               \* "none", "generate" or "stream": the call in flight
    depth,            \* the stage the call in flight is at (Len + 1: the real model)
    original,         \* the parameters the caller passed
    params,           \* the parameters as transformed so far
    outcome,          \* the result or error travelling back up through the stages
    events,           \* what the stages' wrappers and the real model did, in order
    provider,         \* the real model: parameters received, parts emitted, status
    queue,            \* per stage, the parts its output stream holds (Len + 1: the real model's)
    failed,           \* per stage, the error its output stream has failed with, or "none"
    consumed,         \* the parts the caller of the wrapped stream has read
    delivered,        \* what the caller of the wrapped handle finally got
    abort,            \* the caller's AbortSignal: where it has got to, when it was aborted
    got,              \* the last customModel call: what it did, what it returned or threw
    gotBefore,        \* the handle returned before that call, and the identifier it was for
    exports,          \* what lib/ai/index.ts exports, as bound at module load
    env,              \* process.env: LOG_LEVEL, NEXT_PUBLIC_LOG_LEVEL, NODE_ENV
    isServer,         \* logger.ts: typeof window === 'undefined'
    logLevel,         \* logger.ts: the threshold computed when the module was loaded
    loggers,          \* the contexts of the loggers createLogger has returned
    logCalls,         \* the write operations called on loggers so far, in order
    console,          \* the lines written to the console, in order
    parked,           \* a second caller's handle and call, suspended while the first runs
    request,          \* upload route: the request POST is handling, or None
    session,          \* upload route: what auth() returned for it
    uploadPc,         \* upload route: "idle", the await POST is at, "responded" or "threw"
    trace,            \* upload route: what POST has called so far, in order
    responses,        \* upload route: the responses POST has returned for the request
    blobs             \* the blob store: what put has stored, in order

resolveVars == <<resolved, remembered>>
factoryVars == <<got, gotBefore>>
moduleVars == <<exports>>
loggerVars == <<env, isServer, logLevel, loggers, logCalls, console>>
uploadVars == <<request, session, uploadPc, trace, responses, blobs>>
otherVars == <<resolveVars, moduleVars, loggerVars, parked, uploadVars>>
callVars == <<pc, op, depth, original, params, outcome, events, provider,
              queue, failed, consumed, delivered, abort>>
chainVars == <<customMiddleware, handle, callVars>>
vars == <<resolveVars, chainVars, factoryVars, moduleVars, loggerVars, parked,
         uploadVars>>

None == [none |-> TRUE]

-----------------------------------------------------------------------------
(* Strings *)

\* 'anthropic:' (lib/ai/index.ts line 10 and 12)
AnthropicPrefix == <<"a", "n", "t", "h", "r", "o", "p", "i", "c", ":">>
\* 'bedrock:' (lib/ai/index.ts line 16 and 18)
BedrockPrefix == <<"b", "e", "d", "r", "o", "c", "k", ":">>

\* String.prototype.startsWith(searchString)
startsWith(s, p) ==
    /\ Len(p) <= Len(s)
    /\ SubSeq(s, 1, Len(p)) = p

\* the positions at which pattern p occurs in s
Occurrences(s, p) ==
    {i \in 1..(Len(s) - Len(p) + 1) : SubSeq(s, i, i + Len(p) - 1) = p}

Min(S) == CHOOSE x \in S : \A y \in S : x <= y

\* String.prototype.replace(pattern, replacement) with a string pattern:
\* only the first occurrence is replaced; no occurrence leaves s unchanged.
replace(s, p, r) ==
    IF Occurrences(s, p) = {}
    THEN s
    ELSE LET i == Min(Occurrences(s, p))
         IN  SubSeq(s, 1, i - 1) \o r \o SubSeq(s, i + Len(p), Len(s))

-----------------------------------------------------------------------------
(* Provider constructors: anthropic(modelId), bedrock(modelId),            *)
(* openai(modelId).  A constructor call is recorded as the provider and    *)
(* the backend-specific name it received.                                  *)

anthropic(modelId) == [provider |-> "anthropic", modelId |-> modelId]
bedrock(modelId)   == [provider |-> "bedrock", modelId |-> modelId]
openai(modelId)    == [provider |-> "openai", modelId |-> modelId]

\* createProviderModel with a replace that removes every occurrence of the
\* prefix (String.prototype.replaceAll) instead of the first one.
RECURSIVE replaceAll(_, _, _)
replaceAll(s, p, r) ==
    IF Occurrences(s, p) = {} THEN s
    ELSE LET i == Min(Occurrences(s, p))
         IN  SubSeq(s, 1, i - 1) \o r
                 \o replaceAll(SubSeq(s, i + Len(p), Len(s)), p, r)

createProviderModel_replaceAll(apiIdentifier) ==
    IF startsWith(apiIdentifier, AnthropicPrefix)
    THEN <<anthropic(replaceAll(apiIdentifier, AnthropicPrefix, <<>>))>>
    ELSE IF startsWith(apiIdentifier, BedrockPrefix)
    THEN <<bedrock(replaceAll(apiIdentifier, BedrockPrefix, <<>>))>>
    ELSE <<openai(apiIdentifier)>>

\* createProviderModel testing for the tag anywhere in the identifier
\* (String.prototype.includes) instead of at its start.
createProviderModel_includes(apiIdentifier) ==
    IF Occurrences(apiIdentifier, AnthropicPrefix) # {}
    THEN <<anthropic(replace(apiIdentifier, AnthropicPrefix, <<>>))>>
    ELSE IF Occurrences(apiIdentifier, BedrockPrefix) # {}
    THEN <<bedrock(replace(apiIdentifier, BedrockPrefix, <<>>))>>
    ELSE <<openai(apiIdentifier)>>

\* createProviderModel whose branches do not return, so that control falls
\* through to the default provider after a namespaced one was constructed.
createProviderModel_fallthrough(apiIdentifier) ==
    (IF startsWith(apiIdentifier, AnthropicPrefix)
     THEN <<anthropic(replace(apiIdentifier, AnthropicPrefix, <<>>))>>
     ELSE IF startsWith(apiIdentifier, BedrockPrefix)
     THEN <<bedrock(replace(apiIdentifier, BedrockPrefix, <<>>))>>
     ELSE <<>>)
    \o <<openai(apiIdentifier)>>

\* createProviderModel: the constructor calls one invocation makes, in
\* order.  The model it returns is the value of the last of them.
createProviderModel(apiIdentifier) ==
    IF startsWith(apiIdentifier, AnthropicPrefix)
    THEN <<anthropic(replace(apiIdentifier, AnthropicPrefix, <<>>))>>
    ELSE IF startsWith(apiIdentifier, BedrockPrefix)
    THEN <<bedrock(replace(apiIdentifier, BedrockPrefix, <<>>))>>
    ELSE <<openai(apiIdentifier)>>

-----------------------------------------------------------------------------
(* Identifiers handed to createProviderModel: every concatenation of at    *)
(* most MaxParts pieces.  The pieces hold both namespace tags, a tag       *)
(* without its delimiter, the delimiter alone and a plain character.         *)

MaxParts == 2

Pieces ==
    { AnthropicPrefix,
      BedrockPrefix,
      <<"a", "n", "t", "h", "r", "o", "p", "i", "c">>,
      <<":">>,
      <<"x">> }

RECURSIVE Concats(_)
Concats(n) ==
    IF n = 0 THEN {<<>>}
    ELSE LET shorter == Concats(n - 1)
         IN  shorter \cup {s \o p : s \in shorter, p \in Pieces}

Identifiers == Concats(MaxParts)

-----------------------------------------------------------------------------
(* Middleware stages.  A stage is a LanguageModelV1Middleware: up to three *)
(* hooks, each "absent" or named by what it does.                          *)

Absent == "absent"

\* a middleware object with no hook at all: {}
emptyMiddleware ==
    [name |-> "empty", transformParams |-> Absent,
     wrapGenerate |-> Absent, wrapStream |-> Absent]

\* logMiddleware of the SDK documentation: wrapGenerate and wrapStream that
\* log and hand on what they got
logMiddleware ==
    [name |-> "log", transformParams |-> Absent,
     wrapGenerate |-> "log", wrapStream |-> "log"]

\* ragMiddleware of the SDK documentation: transformParams that adds an
\* instruction to the last user message
ragMiddleware ==
    [name |-> "rag", transformParams |-> "rag",
     wrapGenerate |-> Absent, wrapStream |-> Absent]

\* guardrailMiddleware of the SDK documentation: wrapGenerate that redacts
\* the generated text
guardrailMiddleware ==
    [name |-> "guardrail", transformParams |-> Absent,
     wrapGenerate |-> "guardrail", wrapStream |-> Absent]

\* a second parameter-transforming stage, adding a different instruction
tagMiddleware ==
    [name |-> "tag", transformParams |-> "tag",
     wrapGenerate |-> Absent, wrapStream |-> Absent]

\* a stage that uppercases every text increment of a stream
upperMiddleware ==
    [name |-> "upper", transformParams |-> Absent,
     wrapGenerate |-> Absent, wrapStream |-> "upper"]

\* a stage whose wrapGenerate catches an error and substitutes a result
recoverMiddleware ==
    [name |-> "recover", transformParams |-> Absent,
     wrapGenerate |-> "recover", wrapStream |-> Absent]

Stages ==
    { emptyMiddleware, logMiddleware, ragMiddleware, guardrailMiddleware,
      tagMiddleware, upperMiddleware, recoverMiddleware }

MaxStages == 2

RECURSIVE StageLists(_)
StageLists(n) ==
    IF n = 0 THEN {<<>>}
    ELSE LET shorter == StageLists(n - 1)
         IN  shorter \cup {Append(l, st) : l \in shorter, st \in Stages}

-----------------------------------------------------------------------------
(* Values that travel through a call. *)

\* call parameters: the tokens of the prompt
Prompts == {<<"q">>}

\* generated texts, as token sequences
Texts == {<<"ok">>, <<"badword">>}

Errors == {"E1", "E2"}

Result(text) == [ok |-> TRUE, text |-> text]
Failure(error) == [ok |-> FALSE, error |-> error]

\* stream parts (LanguageModelV1StreamPart) and the end of the stream
TextDelta(c) == [type |-> "text-delta", textDelta |-> c]
Finish(r) == [type |-> "finish", finishReason |-> r]
Close == [type |-> "close"]

Deltas == {"a", "b"}
FinishReasons == {"stop", "length"}

\* String.prototype.toUpperCase on the one-character increments
toUpperCase(c) ==
    CASE c = "a" -> "A"
      [] c = "b" -> "B"
      [] OTHER -> c

\* a transformParams that builds its result from the prompt alone, so that
\* the other fields of the parameters, the abort signal among them, are lost
forwardsSignal_rebuilds(stage) ==
    CASE stage.transformParams = Absent -> TRUE
      [] stage.transformParams = "rag" -> FALSE
      [] stage.transformParams = "tag" -> TRUE

\* whether the parameters a stage hands on still hold the abort signal it
\* received: an absent transformParams hands the parameters on as they are,
\* the others return them with the prompt alone replaced
forwardsSignal(stage) ==
    CASE stage.transformParams = Absent -> TRUE
      [] stage.transformParams = "rag" -> TRUE
      [] stage.transformParams = "tag" -> TRUE

\* a chain that hands a stage without transformParams nothing and goes on
\* with the empty parameters
transformParams_absentClears(stage, p) ==
    CASE stage.transformParams = Absent -> <<>>
      [] stage.transformParams = "rag" -> Append(p, "sources")
      [] stage.transformParams = "tag" -> Append(p, "tag")

\* a stage's transformParams applied to the parameters; absent: unchanged
transformParams(stage, p) ==
    CASE stage.transformParams = Absent -> p
      [] stage.transformParams = "rag" -> Append(p, "sources")
      [] stage.transformParams = "tag" -> Append(p, "tag")

\* text.replace(/badword/g, '<REDACTED>') on a token sequence
redact(text) ==
    [i \in DOMAIN text |-> IF text[i] = "badword" THEN "<REDACTED>" ELSE text[i]]

\* wrapGenerate whose logging wrapper catches the error to log it and does
\* not throw it again
wrapGenerate_swallows(stage, out) ==
    CASE stage.wrapGenerate = Absent -> out
      [] stage.wrapGenerate = "log" ->
            IF out.ok THEN out ELSE Result(<<>>)
      [] stage.wrapGenerate = "guardrail" ->
            IF out.ok THEN Result(redact(out.text)) ELSE out
      [] stage.wrapGenerate = "recover" ->
            IF out.ok THEN out ELSE Result(<<"fallback">>)

\* what a stage's wrapGenerate returns, given what its doGenerate() gave;
\* absent: the continuation's outcome itself
wrapGenerate(stage, out) ==
    CASE stage.wrapGenerate = Absent -> out
      [] stage.wrapGenerate = "log" -> out
      [] stage.wrapGenerate = "guardrail" ->
            IF out.ok THEN Result(redact(out.text)) ELSE out
      [] stage.wrapGenerate = "recover" ->
            IF out.ok THEN out ELSE Result(<<"fallback">>)

\* what a stage's wrapStream transform enqueues for one part it receives
transform(stage, part) ==
    CASE stage.wrapStream = "log" -> part
      [] stage.wrapStream = "upper" ->
            IF part.type = "text-delta"
            THEN TextDelta(toUpperCase(part.textDelta))
            ELSE part

-----------------------------------------------------------------------------
(* customModel: resolve, then wrap with the configured middleware.         *)

Last(s) == s[Len(s)]

\* the wrapped model: the model it delegates to and the stages around it
wrapLanguageModel(args) ==
    [model |-> args.model, middleware |-> args.middleware]

Reverse(s) == [i \in DOMAIN s |-> s[Len(s) + 1 - i]]

\* customModel handing the stages over in the opposite order
customModel_reversed(apiIdentifier) ==
    wrapLanguageModel([model |-> Last(createProviderModel(apiIdentifier)),
                       middleware |-> Reverse(customMiddleware)])

\* customModel wrapping the model it has just wrapped a second time
customModel_wrapsTwice(apiIdentifier) ==
    wrapLanguageModel(
        [model |-> wrapLanguageModel(
                      [model |-> Last(createProviderModel(apiIdentifier)),
                       middleware |-> customMiddleware]),
         middleware |-> customMiddleware])

\* customModel wrapping with stages written into the call instead of the
\* configured ones
customModel_hardcoded(apiIdentifier) ==
    wrapLanguageModel([model |-> Last(createProviderModel(apiIdentifier)),
                       middleware |-> <<guardrailMiddleware, upperMiddleware>>])

customModel(apiIdentifier) ==
    wrapLanguageModel([model |-> Last(createProviderModel(apiIdentifier)),
                       middleware |-> customMiddleware])

\* the identifiers application code asks handles for
RequestedIdentifiers ==
    { BedrockPrefix \o AnthropicPrefix \o <<"x">>, <<"x">> }

-----------------------------------------------------------------------------
(* lib/utilities/logger.ts: the level threshold and the four writers.      *)

\* enum LogLevel
NONE == 0
ERROR == 1
WARN == 2
INFO == 3
DEBUG == 4

LowerCase ==
    <<"a", "b", "c", "d", "e", "f", "g", "h", "i", "j", "k", "l", "m",
      "n", "o", "p", "q", "r", "s", "t", "u", "v", "w", "x", "y", "z">>
UpperCase ==
    <<"A", "B", "C", "D", "E", "F", "G", "H", "I", "J", "K", "L", "M",
      "N", "O", "P", "Q", "R", "S", "T", "U", "V", "W", "X", "Y", "Z">>

\* one character of String.prototype.toUpperCase
upper(c) ==
    IF \E i \in DOMAIN LowerCase : LowerCase[i] = c
    THEN UpperCase[CHOOSE i \in DOMAIN LowerCase : LowerCase[i] = c]
    ELSE c

\* an environment variable: not set, or set to a string
Unset == [set |-> FALSE, value |-> <<>>]
Str(s) == [set |-> TRUE, value |-> s]

\* v?.toUpperCase() === name
upperIs(v, name) ==
    v.set /\ [i \in DOMAIN v.value |-> upper(v.value[i])] = name

Development == <<"d", "e", "v", "e", "l", "o", "p", "m", "e", "n", "t">>

\* getLogLevel that compares the level variable as it is written
getLogLevel_exactCase(server, e) ==
    LET v == IF server THEN e.LOG_LEVEL ELSE e.NEXT_PUBLIC_LOG_LEVEL
    IN  IF v = Str(<<"D", "E", "B", "U", "G">>) THEN DEBUG
        ELSE IF v = Str(<<"I", "N", "F", "O">>) THEN INFO
        ELSE IF v = Str(<<"W", "A", "R", "N">>) THEN WARN
        ELSE IF v = Str(<<"E", "R", "R", "O", "R">>) THEN ERROR
        ELSE IF e.NODE_ENV = Str(Development) THEN DEBUG
        ELSE NONE

\* getLogLevel(): the chain of conditional expressions, in its order
getLogLevel(server, e) ==
    LET v == IF server THEN e.LOG_LEVEL ELSE e.NEXT_PUBLIC_LOG_LEVEL
    IN  IF upperIs(v, <<"D", "E", "B", "U", "G">>) THEN DEBUG
        ELSE IF upperIs(v, <<"I", "N", "F", "O">>) THEN INFO
        ELSE IF upperIs(v, <<"W", "A", "R", "N">>) THEN WARN
        ELSE IF upperIs(v, <<"E", "R", "R", "O", "R">>) THEN ERROR
        ELSE IF e.NODE_ENV = Str(Development) THEN DEBUG
        ELSE NONE

\* what the level variables are set to
LevelValues ==
    { Unset,
      Str(<<"d", "e", "b", "u", "g">>),
      Str(<<"I", "n", "f", "o">>),
      Str(<<"W", "A", "R", "N">>),
      Str(<<"e", "r", "r", "o", "r">>),
      Str(<<"n", "o", "n", "e">>) }

NodeEnvValues ==
    { Unset,
      Str(Development),
      Str(<<"p", "r", "o", "d", "u", "c", "t", "i", "o", "n">>),
      Str(<<"D", "e", "v", "e", "l", "o", "p", "m", "e", "n", "t">>) }

\* the component names createLogger is called with; '' stands for none
ComponentNames == {"chat", ""}

\* getCallerFile(): the path of the file createLogger was called from
CallerFile == "app/route.ts"

MaxLogCalls == 2

\* the upload route with no request in flight and an empty blob store
NoUpload ==
    /\ request = None
    /\ session = None
    /\ uploadPc = "idle"
    /\ trace = <<>>
    /\ responses = <<>>
    /\ blobs = <<>>

\* the logger module before it is used, on a server with nothing set
NoLogger ==
    /\ env = [LOG_LEVEL |-> Unset, NEXT_PUBLIC_LOG_LEVEL |-> Unset, NODE_ENV |-> Unset]
    /\ isServer = TRUE
    /\ logLevel = getLogLevel(TRUE, env)
    /\ loggers = {}
    /\ logCalls = <<>>
    /\ console = <<>>

-----------------------------------------------------------------------------
(* One evaluation of customModel(apiIdentifier), exceptions included.  A   *)
(* provider constructor throws when its provider is not configured (no     *)
(* credentials in the environment); the set of such providers is an input. *)

Providers == {"anthropic", "bedrock", "openai"}

\* the environments customModel is called in: every provider configured,
\* one provider not configured, no provider configured
Unconfigured == {{}, Providers} \cup {{p} : p \in Providers}

\* the error the constructor of provider p throws
CtorError(p) ==
    CASE p = "anthropic" -> "anthropic: constructor failed"
      [] p = "bedrock" -> "bedrock: constructor failed"
      [] p = "openai" -> "openai: constructor failed"

\* the error a stage's setup throws while the chain is built
SetupError == "stage setup failed"

\* the constructor calls that are made: a throw ends the evaluation, so the
\* calls after the first throwing one are never reached
Attempted(calls, unconfigured) ==
    LET bad == {i \in DOMAIN calls : calls[i].provider \in unconfigured}
    IN  IF bad = {} THEN calls ELSE SubSeq(calls, 1, Min(bad))

\* customModel that catches the constructor's error and falls back to the
\* default provider
customModelCall_fallback(apiIdentifier, unconfigured, faulty) ==
    LET calls == Attempted(createProviderModel(apiIdentifier), unconfigured)
        threw == Last(calls).provider \in unconfigured
    IN  IF threw /\ "openai" \in unconfigured
        THEN [apiIdentifier |-> apiIdentifier, unconfigured |-> unconfigured,
              faulty |-> faulty, constructed |-> calls,
              wraps |-> 0, setups |-> 0,
              result |-> Failure(CtorError(Last(calls).provider))]
        ELSE IF threw
        THEN [apiIdentifier |-> apiIdentifier, unconfigured |-> unconfigured,
              faulty |-> faulty,
              constructed |-> Append(calls, openai(apiIdentifier)),
              wraps |-> 1, setups |-> Len(customMiddleware),
              result |-> [ok |-> TRUE,
                          handle |-> wrapLanguageModel(
                                        [model |-> openai(apiIdentifier),
                                         middleware |-> customMiddleware])]]
        ELSE IF faulty # 0
        THEN [apiIdentifier |-> apiIdentifier, unconfigured |-> unconfigured,
              faulty |-> faulty, constructed |-> calls,
              wraps |-> 1, setups |-> faulty,
              result |-> Failure(SetupError)]
        ELSE [apiIdentifier |-> apiIdentifier, unconfigured |-> unconfigured,
              faulty |-> faulty, constructed |-> calls,
              wraps |-> 1, setups |-> Len(customMiddleware),
              result |-> [ok |-> TRUE, handle |-> customModel(apiIdentifier)]]

\* customModel whose wrap skips the stage whose setup threw and returns a
\* handle wrapped by the stages before it
customModelCall_partial(apiIdentifier, unconfigured, faulty) ==
    LET calls == Attempted(createProviderModel(apiIdentifier), unconfigured)
        threw == Last(calls).provider \in unconfigured
    IN  IF threw
        THEN [apiIdentifier |-> apiIdentifier, unconfigured |-> unconfigured,
              faulty |-> faulty, constructed |-> calls,
              wraps |-> 0, setups |-> 0,
              result |-> Failure(CtorError(Last(calls).provider))]
        ELSE IF faulty # 0
        THEN [apiIdentifier |-> apiIdentifier, unconfigured |-> unconfigured,
              faulty |-> faulty, constructed |-> calls,
              wraps |-> 1, setups |-> faulty,
              result |-> [ok |-> TRUE,
                          handle |-> wrapLanguageModel(
                                        [model |-> Last(calls),
                                         middleware |->
                                            SubSeq(customMiddleware, 1, faulty - 1)])]]
        ELSE [apiIdentifier |-> apiIdentifier, unconfigured |-> unconfigured,
              faulty |-> faulty, constructed |-> calls,
              wraps |-> 1, setups |-> Len(customMiddleware),
              result |-> [ok |-> TRUE, handle |-> customModel(apiIdentifier)]]

\* customModel(apiIdentifier): the argument of wrapLanguageModel is
\* evaluated first, so a constructor that throws ends the call before the
\* wrap; the wrap runs the stages' setups in list order (faulty: the
\* position of the stage whose setup throws, 0 for none) and a throw ends
\* it; otherwise the wrapped model is returned.
customModelCall(apiIdentifier, unconfigured, faulty) ==
    LET calls == Attempted(createProviderModel(apiIdentifier), unconfigured)
        threw == Last(calls).provider \in unconfigured
    IN  IF threw
        THEN [apiIdentifier |-> apiIdentifier, unconfigured |-> unconfigured,
              faulty |-> faulty, constructed |-> calls,
              wraps |-> 0, setups |-> 0,
              result |-> Failure(CtorError(Last(calls).provider))]
        ELSE IF faulty # 0
        THEN [apiIdentifier |-> apiIdentifier, unconfigured |-> unconfigured,
              faulty |-> faulty, constructed |-> calls,
              wraps |-> 1, setups |-> faulty,
              result |-> Failure(SetupError)]
        ELSE [apiIdentifier |-> apiIdentifier, unconfigured |-> unconfigured,
              faulty |-> faulty, constructed |-> calls,
              wraps |-> 1, setups |-> Len(customMiddleware),
              result |-> [ok |-> TRUE, handle |-> customModel(apiIdentifier)]]

-----------------------------------------------------------------------------
(* What lib/ai/index.ts exports.                                           *)

\* openai.image(modelId)
openai_image(modelId) == [provider |-> "openai", kind |-> "image", modelId |-> modelId]

\* export const imageGenerationModel = openai.image('dall-e-3')
imageGenerationModel == openai_image(<<"dall-e-3">>)

\* an export list that also holds createProviderModel
ModuleExports_withResolver ==
    { [name |-> "customModel", kind |-> "function", value |-> None],
      [name |-> "createProviderModel", kind |-> "function", value |-> None],
      [name |-> "imageGenerationModel", kind |-> "model",
       value |-> imageGenerationModel] }

\* the module's export list: the function customModel and the constant
\* imageGenerationModel
ModuleExports ==
    { [name |-> "customModel", kind |-> "function", value |-> None],
      [name |-> "imageGenerationModel", kind |-> "model",
       value |-> imageGenerationModel] }

-----------------------------------------------------------------------------
\* the real model before it is called
NoProvider ==
    [calls |-> <<>>, invoked |-> <<>>, emitted |-> <<>>, status |-> "unused",
     error |-> "none"]

\* no signal: nothing passed, nothing aborted
NoAbort ==
    [carried |-> FALSE, received |-> FALSE, aborted |-> FALSE, open |-> FALSE,
     deltasAt |-> 0, emittedAt |-> 0]

\* a caller that has not asked for a handle yet
NoContext ==
    [handle |-> None, got |-> None, gotBefore |-> None, pc |-> "idle",
     op |-> "none", depth |-> 0, original |-> <<>>, params |-> <<>>,
     outcome |-> None, events |-> <<>>, provider |-> NoProvider, queue |-> <<>>,
     failed |-> <<>>, consumed |-> <<>>, delivered |-> None, abort |-> NoAbort]

(* No call in flight on the wrapped handle. *)
NoCall ==
    /\ pc = "idle"
    /\ op = "none"
    /\ depth = 0
    /\ original = <<>>
    /\ params = <<>>
    /\ outcome = None
    /\ events = <<>>
    /\ provider = NoProvider
    /\ queue = <<>>
    /\ failed = <<>>
    /\ consumed = <<>>
    /\ delivered = None
    /\ abort = NoAbort

-----------------------------------------------------------------------------
(* Resolution on its own: createProviderModel applied to any identifier.   *)

InitResolve ==
    /\ resolved = None
    /\ remembered = None
    /\ customMiddleware = <<>>
    /\ handle = None
    /\ NoCall
    /\ got = None
    /\ gotBefore = None
    /\ exports = ModuleExports
    /\ parked = NoContext
    /\ NoLogger
    /\ NoUpload

\* One call of createProviderModel(apiIdentifier).  The call before it is
\* either kept as `remembered` or forgotten.
Resolve(apiIdentifier) ==
    /\ resolved' = [apiIdentifier |-> apiIdentifier,
                    constructed |-> createProviderModel(apiIdentifier)]
    /\ \/ remembered' = remembered
       \/ resolved # None /\ remembered' = resolved
    /\ UNCHANGED <<chainVars, factoryVars, moduleVars, loggerVars, parked, uploadVars>>

NextResolve == \E apiIdentifier \in Identifiers : Resolve(apiIdentifier)

SpecResolve == InitResolve /\ [][NextResolve]_vars

-----------------------------------------------------------------------------
(* The layer as application code uses it: customModel, then generate or    *)
(* stream on the handle it returned.                                       *)

MaxChunks == 2

NumDeltas(parts) == Cardinality({i \in DOMAIN parts : parts[i].type = "text-delta"})

Init ==
    /\ resolved = None
    /\ remembered = None
    /\ customMiddleware \in StageLists(MaxStages)
    /\ handle = None
    /\ NoCall
    /\ got = None
    /\ gotBefore = None
    /\ exports = ModuleExports
    /\ parked = NoContext
    /\ NoLogger
    /\ NoUpload

\* the number of stages around the real model
N == IF handle = None THEN 0 ELSE Len(handle.middleware)

Event(ev, stage, p, saw) == [ev |-> ev, stage |-> stage, params |-> p, saw |-> saw]

HasWrapStream(i) == handle.middleware[i].wrapStream # Absent

\* the stream stage i reads from: the output of the nearest wrapStream stage
\* after it, or of the real model (N + 1)
Upstream(i) == Min({j \in (i + 1)..N : HasWrapStream(j)} \cup {N + 1})

\* the stream the caller reads from
Outermost == Upstream(0)

\* the last handle a customModel call returned, with the identifier it was
\* asked for and whether generate or stream was called on it since: that of
\* call g if it returned one, else the one before
Returned(g, before) ==
    IF g # None /\ g.result.ok
    THEN [apiIdentifier |-> g.apiIdentifier, handle |-> g.result.handle,
          used |-> FALSE]
    ELSE before

\* customModel that registers one more stage in the shared list each time
\* it is called
GetModel_appendsStage(apiIdentifier, unconfigured, faulty) ==
    /\ pc = "idle"
    /\ got' = customModelCall(apiIdentifier, unconfigured, faulty)
    /\ handle' = IF got'.result.ok THEN got'.result.handle ELSE handle
    /\ gotBefore' = Returned(got, gotBefore)
    /\ customMiddleware' = Append(customMiddleware, emptyMiddleware)
    /\ UNCHANGED <<otherVars, callVars>>

\* customModel that sends a warm-up request to the provider it has resolved
GetModel_warmsUp(apiIdentifier, unconfigured, faulty) ==
    /\ pc = "idle"
    /\ got' = customModelCall(apiIdentifier, unconfigured, faulty)
    /\ handle' = IF got'.result.ok THEN got'.result.handle ELSE handle
    /\ gotBefore' = Returned(got, gotBefore)
    /\ provider' = IF got'.result.ok
                   THEN [provider EXCEPT !.invoked = <<got'.result.handle.model>>]
                   ELSE provider
    /\ UNCHANGED <<otherVars, customMiddleware, pc, op, depth, original, params,
                   outcome, events, queue, failed, consumed, delivered, abort>>

\* application code calls customModel(apiIdentifier); the handle it holds
\* is replaced only when the call returns one.  The last call before this
\* one that returned a handle is kept for comparison.
GetModel(apiIdentifier, unconfigured, faulty) ==
    /\ pc = "idle"
    /\ got' = customModelCall(apiIdentifier, unconfigured, faulty)
    /\ handle' = IF got'.result.ok THEN got'.result.handle ELSE handle
    /\ gotBefore' = Returned(got, gotBefore)
    /\ UNCHANGED <<otherVars, customMiddleware, callVars>>

\* the caller invokes doGenerate(p) or doStream(p) on the handle
StartCall(kind, p) ==
    /\ pc = "idle"
    /\ handle # None
    /\ pc' = "down"
    /\ op' = kind
    /\ depth' = 1
    /\ original' = p
    /\ params' = p
    /\ got' = None
    /\ gotBefore' = [Returned(got, gotBefore) EXCEPT !.used = TRUE]
    /\ abort' = [NoAbort EXCEPT !.carried = TRUE]
    /\ UNCHANGED <<otherVars, customMiddleware, handle, outcome, events,
                   provider, queue, failed, consumed, delivered>>

\* a chain that hands every stage's wrapper the parameters of the caller
\* and the transformed ones to the real model alone
EnterStage_wrapsOriginal ==
    /\ pc = "down"
    /\ depth <= N
    /\ LET stage == handle.middleware[depth]
           p == transformParams(stage, params)
           hook == IF op = "generate" THEN stage.wrapGenerate ELSE stage.wrapStream
       IN  /\ params' = p
           /\ events' = IF hook = Absent THEN events
                        ELSE Append(events, Event("start", stage.name, original, None))
    /\ depth' = depth + 1
    /\ abort' = [abort EXCEPT !.carried = @ /\ forwardsSignal(handle.middleware[depth])]
    /\ UNCHANGED <<otherVars, factoryVars, customMiddleware, handle, pc, op, original,
                   outcome, provider, queue, failed, consumed, delivered>>

\* the wrapper of stage `depth` runs: its transformParams, then its
\* wrapGenerate or wrapStream up to the point where it calls the rest
EnterStage ==
    /\ pc = "down"
    /\ depth <= N
    /\ LET stage == handle.middleware[depth]
           p == transformParams(stage, params)
           hook == IF op = "generate" THEN stage.wrapGenerate ELSE stage.wrapStream
       IN  /\ params' = p
           /\ events' = IF hook = Absent THEN events
                        ELSE Append(events, Event("start", stage.name, p, None))
    /\ depth' = depth + 1
    /\ abort' = [abort EXCEPT !.carried = @ /\ forwardsSignal(handle.middleware[depth])]
    /\ UNCHANGED <<otherVars, factoryVars, customMiddleware, handle, pc, op, original,
                   outcome, provider, queue, failed, consumed, delivered>>

\* a layer that answers a rejection by invoking the real model once more
DoGenerate_retries(out) ==
    /\ pc = "down"
    /\ op = "generate"
    /\ depth = N + 1
    /\ provider' = [provider EXCEPT
                        !.calls = IF out.ok THEN Append(@, params)
                                  ELSE @ \o <<params, params>>,
                        !.invoked = IF out.ok THEN Append(@, handle.model)
                                    ELSE @ \o <<handle.model, handle.model>>,
                        !.status = IF out.ok THEN "returned" ELSE "rejected",
                        !.error = IF out.ok THEN "none" ELSE out.error]
    /\ outcome' = out
    /\ events' = Append(events, Event("provider", "model", params, out))
    /\ pc' = "up"
    /\ depth' = N
    /\ abort' = [abort EXCEPT !.received = abort.carried]
    /\ UNCHANGED <<otherVars, factoryVars, customMiddleware, handle, op, original, params,
                   queue, failed, consumed, delivered>>

\* the real model's doGenerate: a result, or a rejection
DoGenerate(out) ==
    /\ pc = "down"
    /\ op = "generate"
    /\ depth = N + 1
    /\ provider' = [provider EXCEPT !.calls = Append(@, params),
                                    !.invoked = Append(@, handle.model),
                                    !.status = IF out.ok THEN "returned" ELSE "rejected",
                                    !.error = IF out.ok THEN "none" ELSE out.error]
    /\ outcome' = out
    /\ events' = Append(events, Event("provider", "model", params, out))
    /\ pc' = "up"
    /\ depth' = N
    /\ abort' = [abort EXCEPT !.received = abort.carried]
    /\ UNCHANGED <<otherVars, factoryVars, customMiddleware, handle, op, original, params,
                   queue, failed, consumed, delivered>>

\* doGenerate() of stage `depth` has settled: the rest of its wrapGenerate runs
LeaveStage ==
    /\ pc = "up"
    /\ depth >= 1
    /\ LET stage == handle.middleware[depth]
           out == wrapGenerate(stage, outcome)
       IN  /\ outcome' = out
           /\ events' = IF stage.wrapGenerate = Absent THEN events
                        ELSE Append(events,
                                    Event(IF out.ok THEN "return" ELSE "throw",
                                          stage.name, params, outcome))
    /\ depth' = depth - 1
    /\ UNCHANGED <<otherVars, factoryVars, abort, customMiddleware, handle, pc, op, original, params,
                   provider, queue, failed, consumed, delivered>>

\* the promise the caller awaits settles
Settle ==
    /\ pc = "up"
    /\ depth = 0
    /\ delivered' = outcome
    /\ pc' = "done"
    /\ UNCHANGED <<otherVars, factoryVars, abort, customMiddleware, handle, op, depth, original,
                   params, outcome, events, provider, queue, failed, consumed>>

\* the real model's doStream: an open stream; every wrapStream stage pipes
\* the stream below it through its TransformStream
DoStream ==
    /\ pc = "down"
    /\ op = "stream"
    /\ depth = N + 1
    /\ provider' = [provider EXCEPT !.calls = Append(@, params),
                                    !.invoked = Append(@, handle.model),
                                    !.status = "open"]
    /\ queue' = [i \in 1..(N + 1) |-> <<>>]
    /\ failed' = [i \in 1..(N + 1) |-> "none"]
    /\ events' = Append(events, Event("provider", "model", params, None))
    /\ pc' = "open"
    /\ abort' = [abort EXCEPT !.received = abort.carried]
    /\ UNCHANGED <<otherVars, factoryVars, customMiddleware, handle, op, depth, original,
                   params, outcome, consumed, delivered>>


\* the real model enqueues a text increment
ProviderEmit(c) ==
    /\ pc = "open"
    /\ provider.status = "open"
    /\ NumDeltas(provider.emitted) < MaxChunks
    /\ provider' = [provider EXCEPT !.emitted = Append(@, TextDelta(c))]
    /\ queue' = [queue EXCEPT ![N + 1] = Append(@, TextDelta(c))]
    /\ UNCHANGED <<otherVars, factoryVars, abort, customMiddleware, handle, pc, op, depth, original,
                   params, outcome, events, failed, consumed, delivered>>

\* the real model enqueues its finish part and closes its stream
ProviderFinish(r) ==
    /\ pc = "open"
    /\ provider.status = "open"
    /\ provider' = [provider EXCEPT !.emitted = @ \o <<Finish(r), Close>>,
                                    !.status = "closed"]
    /\ queue' = [queue EXCEPT ![N + 1] = @ \o <<Finish(r), Close>>]
    /\ UNCHANGED <<otherVars, factoryVars, abort, customMiddleware, handle, pc, op, depth, original,
                   params, outcome, events, failed, consumed, delivered>>

\* the real model's stream fails: controller.error(e) drops what is queued
ProviderFail(e) ==
    /\ pc = "open"
    /\ provider.status = "open"
    /\ provider' = [provider EXCEPT !.status = "failed", !.error = e]
    /\ queue' = [queue EXCEPT ![N + 1] = <<>>]
    /\ failed' = [failed EXCEPT ![N + 1] = e]
    /\ UNCHANGED <<otherVars, factoryVars, abort, customMiddleware, handle, pc, op, depth, original,
                   params, outcome, events, consumed, delivered>>

\* the error an aborted request fails with
AbortError == "AbortError"

\* the caller aborts the signal while the stream is open.  A real model that
\* received the signal and is still producing stops: its stream fails with
\* AbortError and drops what it held.  The abort is remembered with the
\* number of increments read and of parts produced at that point.
Cancel ==
    /\ pc = "open"
    /\ ~abort.aborted
    /\ abort' = [abort EXCEPT !.aborted = TRUE,
                              !.open = provider.status = "open",
                              !.deltasAt = NumDeltas(consumed),
                              !.emittedAt = Len(provider.emitted)]
    /\ IF abort.received /\ provider.status = "open"
       THEN /\ provider' = [provider EXCEPT !.status = "failed", !.error = AbortError]
            /\ queue' = [queue EXCEPT ![N + 1] = <<>>]
            /\ failed' = [failed EXCEPT ![N + 1] = AbortError]
       ELSE UNCHANGED <<provider, queue, failed>>
    /\ UNCHANGED <<otherVars, factoryVars, customMiddleware, handle, pc, op, depth,
                   original, params, outcome, events, consumed, delivered>>

\* transform that enqueues only inside its text-delta branch, so that every
\* other part is taken and not passed on
StageTransform_drops(i) ==
    /\ pc = "open"
    /\ HasWrapStream(i)
    /\ failed[i] = "none"
    /\ queue[Upstream(i)] # <<>>
    /\ Head(queue[Upstream(i)]).type # "close"
    /\ queue' = [queue EXCEPT
                    ![Upstream(i)] = Tail(@),
                    ![i] = IF Head(queue[Upstream(i)]).type = "text-delta"
                           THEN Append(@, transform(handle.middleware[i],
                                                    Head(queue[Upstream(i)])))
                           ELSE @]
    /\ UNCHANGED <<otherVars, factoryVars, abort, customMiddleware, handle, pc, op, depth, original,
                   params, outcome, events, provider, failed, consumed, delivered>>

\* TransformStream.transform of stage i: take the next part from upstream,
\* enqueue what the stage makes of it
StageTransform(i) ==
    /\ pc = "open"
    /\ HasWrapStream(i)
    /\ failed[i] = "none"
    /\ queue[Upstream(i)] # <<>>
    /\ Head(queue[Upstream(i)]).type # "close"
    /\ queue' = [queue EXCEPT
                    ![Upstream(i)] = Tail(@),
                    ![i] = Append(@, transform(handle.middleware[i],
                                               Head(queue[Upstream(i)])))]
    /\ UNCHANGED <<otherVars, factoryVars, abort, customMiddleware, handle, pc, op, depth, original,
                   params, outcome, events, provider, failed, consumed, delivered>>

\* flush of a stage that signals the end twice
StageFlush_twice(i) ==
    /\ pc = "open"
    /\ HasWrapStream(i)
    /\ failed[i] = "none"
    /\ queue[Upstream(i)] # <<>>
    /\ Head(queue[Upstream(i)]).type = "close"
    /\ queue' = [queue EXCEPT ![Upstream(i)] = Tail(@), ![i] = @ \o <<Close, Close>>]
    /\ UNCHANGED <<otherVars, factoryVars, abort, customMiddleware, handle, pc, op, depth, original,
                   params, outcome, events, provider, failed, consumed, delivered>>

\* TransformStream.flush of stage i: upstream has closed, the stage closes
StageFlush(i) ==
    /\ pc = "open"
    /\ HasWrapStream(i)
    /\ failed[i] = "none"
    /\ queue[Upstream(i)] # <<>>
    /\ Head(queue[Upstream(i)]).type = "close"
    /\ queue' = [queue EXCEPT ![Upstream(i)] = Tail(@), ![i] = Append(@, Close)]
    /\ UNCHANGED <<otherVars, factoryVars, abort, customMiddleware, handle, pc, op, depth, original,
                   params, outcome, events, provider, failed, consumed, delivered>>

\* a stage that answers the failure of its upstream by ending its own stream
\* normally
StageAbort_swallows(i) ==
    /\ pc = "open"
    /\ HasWrapStream(i)
    /\ failed[i] = "none"
    /\ failed[Upstream(i)] # "none"
    /\ failed' = [failed EXCEPT ![Upstream(i)] = "none"]
    /\ queue' = [queue EXCEPT ![i] = Append(@, Close)]
    /\ UNCHANGED <<otherVars, factoryVars, abort, customMiddleware, handle, pc, op, depth, original,
                   params, outcome, events, provider, consumed, delivered>>

\* upstream of stage i has failed: the pipe aborts the stage, whose output
\* stream fails with the same error and drops what is queued
StageAbort(i) ==
    /\ pc = "open"
    /\ HasWrapStream(i)
    /\ failed[i] = "none"
    /\ failed[Upstream(i)] # "none"
    /\ failed' = [failed EXCEPT ![i] = failed[Upstream(i)]]
    /\ queue' = [queue EXCEPT ![i] = <<>>]
    /\ UNCHANGED <<otherVars, factoryVars, abort, customMiddleware, handle, pc, op, depth, original,
                   params, outcome, events, provider, consumed, delivered>>

DeltasOf(parts) ==
    LET F[i \in 0..Len(parts)] ==
            IF i = 0 THEN <<>>
            ELSE IF parts[i].type = "text-delta"
                 THEN Append(F[i - 1], parts[i].textDelta)
                 ELSE F[i - 1]
    IN  F[Len(parts)]

\* the caller reads the next part of the wrapped stream
Read ==
    /\ pc = "open"
    /\ queue[Outermost] # <<>>
    /\ consumed' = Append(consumed, Head(queue[Outermost]))
    /\ queue' = [queue EXCEPT ![Outermost] = Tail(@)]
    /\ IF Head(queue[Outermost]).type = "close"
       THEN /\ pc' = "done"
            /\ delivered' = Result(DeltasOf(consumed))
       ELSE UNCHANGED <<pc, delivered>>
    /\ UNCHANGED <<otherVars, factoryVars, abort, customMiddleware, handle, op, depth, original,
                   params, outcome, events, provider, failed>>

\* the caller's read rejects: the wrapped stream has failed
ReadError ==
    /\ pc = "open"
    /\ queue[Outermost] = <<>>
    /\ failed[Outermost] # "none"
    /\ delivered' = Failure(failed[Outermost])
    /\ pc' = "done"
    /\ UNCHANGED <<otherVars, factoryVars, abort, customMiddleware, handle, op, depth, original,
                   params, outcome, events, provider, queue, failed, consumed>>

\* the call is over; the handle is ready for the next one
Reset ==
    /\ pc = "done"
    /\ pc' = "idle"
    /\ op' = "none"
    /\ depth' = 0
    /\ original' = <<>>
    /\ params' = <<>>
    /\ outcome' = None
    /\ events' = <<>>
    /\ provider' = NoProvider
    /\ queue' = <<>>
    /\ failed' = <<>>
    /\ consumed' = <<>>
    /\ delivered' = None
    /\ abort' = NoAbort
    /\ UNCHANGED <<otherVars, factoryVars, customMiddleware, handle>>

Next ==
    \/ \E apiIdentifier \in RequestedIdentifiers : GetModel(apiIdentifier, {}, 0)
    \/ \E kind \in {"generate", "stream"}, p \in Prompts : StartCall(kind, p)
    \/ EnterStage
    \/ \E out \in {Result(t) : t \in Texts} \cup {Failure(e) : e \in Errors} :
            DoGenerate(out)
    \/ LeaveStage
    \/ Settle
    \/ DoStream
    \/ \E c \in Deltas : ProviderEmit(c)
    \/ \E r \in FinishReasons : ProviderFinish(r)
    \/ \E e \in Errors : ProviderFail(e)
    \/ \E i \in 1..N : StageTransform(i)
    \/ \E i \in 1..N : StageFlush(i)
    \/ \E i \in 1..N : StageAbort(i)
    \/ Read
    \/ ReadError
    \/ Reset

Spec == Init /\ [][Next]_vars

-----------------------------------------------------------------------------
(* customModel on its own, in every environment: any provider may be       *)
(* unconfigured and any stage's setup may throw.  Spec above is the layer   *)
(* in use, where every customModel call returns a handle.                  *)

NextFactory ==
    \E apiIdentifier \in RequestedIdentifiers, unconfigured \in Unconfigured,
       faulty \in 0..Len(customMiddleware) :
        GetModel(apiIdentifier, unconfigured, faulty)

SpecFactory == Init /\ [][NextFactory]_vars

-----------------------------------------------------------------------------
(* Streams that the caller may cancel: stream calls only, under the        *)
(* configurations made of the stages that touch a stream or its parameters. *)

StreamStages == {emptyMiddleware, logMiddleware, ragMiddleware, upperMiddleware}

InitCancel ==
    /\ Init
    /\ \A i \in DOMAIN customMiddleware : customMiddleware[i] \in StreamStages

NextCancel ==
    \/ \E apiIdentifier \in RequestedIdentifiers : GetModel(apiIdentifier, {}, 0)
    \/ \E p \in Prompts : StartCall("stream", p)
    \/ EnterStage
    \/ DoStream
    \/ \E c \in Deltas : ProviderEmit(c)
    \/ \E r \in FinishReasons : ProviderFinish(r)
    \/ \E e \in Errors : ProviderFail(e)
    \/ Cancel
    \/ \E i \in 1..N : StageTransform(i)
    \/ \E i \in 1..N : StageFlush(i)
    \/ \E i \in 1..N : StageAbort(i)
    \/ Read
    \/ ReadError
    \/ Reset

SpecCancel == InitCancel /\ [][NextCancel]_vars

-----------------------------------------------------------------------------
(* Two callers at once.  Each has its own handle and its own call; the     *)
(* steps of the two calls interleave because the running caller can be     *)
(* suspended at any step boundary and the other one resumed.  What the two *)
(* share is the module: customMiddleware and the exports.                  *)

\* the running caller's handle and call
Context ==
    [handle |-> handle, got |-> got, gotBefore |-> gotBefore, pc |-> pc,
     op |-> op, depth |-> depth, original |-> original, params |-> params,
     outcome |-> outcome, events |-> events, provider |-> provider,
     queue |-> queue, failed |-> failed, consumed |-> consumed,
     delivered |-> delivered, abort |-> abort]

\* a layer that keeps the parameters of the call in progress in a variable
\* of the module, so that they stay behind when the other caller resumes
Switch_sharedParams ==
    /\ parked' = Context
    /\ handle' = parked.handle
    /\ got' = parked.got
    /\ gotBefore' = parked.gotBefore
    /\ pc' = parked.pc
    /\ op' = parked.op
    /\ depth' = parked.depth
    /\ original' = parked.original
    /\ params' = IF parked.pc = "down" THEN params ELSE parked.params
    /\ outcome' = parked.outcome
    /\ events' = parked.events
    /\ provider' = parked.provider
    /\ queue' = parked.queue
    /\ failed' = parked.failed
    /\ consumed' = parked.consumed
    /\ delivered' = parked.delivered
    /\ abort' = parked.abort
    /\ UNCHANGED <<resolveVars, moduleVars, loggerVars, customMiddleware, uploadVars>>

\* the running caller is suspended and the other one resumes where it was
Switch ==
    /\ parked' = Context
    /\ handle' = parked.handle
    /\ got' = parked.got
    /\ gotBefore' = parked.gotBefore
    /\ pc' = parked.pc
    /\ op' = parked.op
    /\ depth' = parked.depth
    /\ original' = parked.original
    /\ params' = parked.params
    /\ outcome' = parked.outcome
    /\ events' = parked.events
    /\ provider' = parked.provider
    /\ queue' = parked.queue
    /\ failed' = parked.failed
    /\ consumed' = parked.consumed
    /\ delivered' = parked.delivered
    /\ abort' = parked.abort
    /\ UNCHANGED <<resolveVars, moduleVars, loggerVars, customMiddleware, uploadVars>>

\* the configurations the two callers run under
ConcurrentConfigurations ==
    { <<ragMiddleware, upperMiddleware>>, <<logMiddleware, guardrailMiddleware>> }

\* the prompts the two callers pass
ConcurrentPrompts == {<<"q">>, <<"r">>}

InitConcurrent ==
    /\ resolved = None
    /\ remembered = None
    /\ customMiddleware \in ConcurrentConfigurations
    /\ handle = None
    /\ NoCall
    /\ got = None
    /\ gotBefore = None
    /\ exports = ModuleExports
    /\ parked = NoContext
    /\ NoLogger
    /\ NoUpload

NextConcurrent ==
    \/ GetModel(BedrockPrefix \o <<"x">>, {}, 0)
    \/ \E kind \in {"generate", "stream"}, p \in ConcurrentPrompts : StartCall(kind, p)
    \/ EnterStage
    \/ \E out \in {Result(<<"badword">>), Failure("E1")} : DoGenerate(out)
    \/ LeaveStage
    \/ Settle
    \/ DoStream
    \/ ProviderEmit("a")
    \/ ProviderFinish("stop")
    \/ ProviderFail("E1")
    \/ \E i \in 1..N : StageTransform(i)
    \/ \E i \in 1..N : StageFlush(i)
    \/ \E i \in 1..N : StageAbort(i)
    \/ Read
    \/ ReadError
    \/ Reset
    \/ Switch

SpecConcurrent == InitConcurrent /\ [][NextConcurrent]_vars

-----------------------------------------------------------------------------
(* The logger: the module is loaded in some environment, loggers are       *)
(* created and written to.                                                 *)

notLoggerVars == <<resolveVars, chainVars, factoryVars, moduleVars, parked,
                  uploadVars>>

InitLogger ==
    /\ resolved = None
    /\ remembered = None
    /\ customMiddleware = <<>>
    /\ handle = None
    /\ NoCall
    /\ got = None
    /\ gotBefore = None
    /\ exports = ModuleExports
    /\ parked = NoContext
    /\ NoUpload
    /\ env \in [LOG_LEVEL : LevelValues, NEXT_PUBLIC_LOG_LEVEL : LevelValues,
                NODE_ENV : NodeEnvValues]
    /\ isServer \in BOOLEAN
    /\ logLevel = getLogLevel(isServer, env)
    /\ loggers = {}
    /\ logCalls = <<>>
    /\ console = <<>>

\* createLogger(componentName)
createLogger(componentName) ==
    /\ loggers' = loggers \cup {IF componentName = "" THEN CallerFile ELSE componentName}
    /\ UNCHANGED <<notLoggerVars, env, isServer, logLevel, logCalls, console>>

\* one write operation on the logger of `context`: the console method is
\* called when `passes` holds
Write(context, operation, passes, method, level) ==
    /\ context \in loggers
    /\ Len(logCalls) < MaxLogCalls
    /\ logCalls' = Append(logCalls, [context |-> context, op |-> operation, wrote |-> passes])
    /\ console' = IF passes
                  THEN Append(console, [method |-> method, level |-> level,
                                        context |-> context])
                  ELSE console
    /\ UNCHANGED <<notLoggerVars, env, isServer, logLevel, loggers>>

\* logger.debug(...args)
debug(context) == Write(context, "debug", logLevel >= DEBUG, "console.debug", "DEBUG")

\* logger.info(...args)
info(context) == Write(context, "info", logLevel >= INFO, "console.log", "INFO")

\* warn that writes only above its own level
warn_above(context) == Write(context, "warn", logLevel > WARN, "console.warn", "WARN")

\* logger.warn(...args)
warn(context) == Write(context, "warn", logLevel >= WARN, "console.warn", "WARN")

\* logger.error(...args)
error(context) == Write(context, "error", logLevel >= ERROR, "console.error", "ERROR")

NextLogger ==
    \/ \E componentName \in ComponentNames : createLogger(componentName)
    \/ \E context \in loggers : debug(context)
    \/ \E context \in loggers : info(context)
    \/ \E context \in loggers : warn(context)
    \/ \E context \in loggers : error(context)

SpecLogger == InitLogger /\ [][NextLogger]_vars

-----------------------------------------------------------------------------
(* Claims about resolution, checked under SpecResolve.                     *)

\* the registered namespace tags in the order the code tests them
RegisteredPrefixes ==
    << [tag |-> AnthropicPrefix, provider |-> "anthropic"],
       [tag |-> BedrockPrefix, provider |-> "bedrock"] >>

\* the positions of the registered tags the identifier starts with
Matching(apiIdentifier) ==
    {i \in DOMAIN RegisteredPrefixes :
        startsWith(apiIdentifier, RegisteredPrefixes[i].tag)}

\* the identifier without its first n characters
DropFirst(s, n) == [i \in 1..(Len(s) - n) |-> s[i + n]]

\* C1: an identifier that starts with a registered namespace prefix makes
\* resolution invoke that provider's constructor with exactly the identifier
\* minus that leading prefix, whatever the remainder contains.
C1_PrefixStripped ==
    resolved # None =>
        \A i \in DOMAIN RegisteredPrefixes :
            startsWith(resolved.apiIdentifier, RegisteredPrefixes[i].tag) =>
                resolved.constructed =
                    << [provider |-> RegisteredPrefixes[i].provider,
                        modelId |-> DropFirst(resolved.apiIdentifier,
                                              Len(RegisteredPrefixes[i].tag))] >>

\* C1 witness: 'bedrock:anthropic:' was resolved, a remainder that holds both
\* a ':' and the text of a namespace tag, and bedrock received 'anthropic:'.
C1_Witness ==
    /\ resolved # None
    /\ resolved.apiIdentifier = BedrockPrefix \o AnthropicPrefix
    /\ resolved.constructed = <<bedrock(AnthropicPrefix)>>

\* C2: an identifier that starts with no registered namespace prefix makes
\* resolution invoke the openai constructor with the whole identifier, and
\* no other constructor.
C2_DefaultWhole ==
    (resolved # None /\ Matching(resolved.apiIdentifier) = {}) =>
        resolved.constructed =
            << [provider |-> "openai", modelId |-> resolved.apiIdentifier] >>

\* C2 witness: 'xanthropic:' was resolved, which holds a tag but does not
\* start with it, and went whole to openai.
C2_Witness ==
    /\ resolved # None
    /\ resolved.apiIdentifier = <<"x">> \o AnthropicPrefix
    /\ resolved.constructed = <<openai(<<"x">> \o AnthropicPrefix)>>

\* C3: resolution is deterministic and first-match-wins: one resolve call
\* invokes exactly one constructor, that of the first entry in the order
\* anthropic, bedrock, default whose tag the identifier starts with, and two
\* resolve calls with the same identifier select the same provider with the
\* same backend-specific name.
C3_FirstMatchDeterministic ==
    resolved # None =>
        /\ Len(resolved.constructed) = 1
        /\ resolved.constructed[1].provider =
              IF Matching(resolved.apiIdentifier) = {}
              THEN "openai"
              ELSE RegisteredPrefixes[Min(Matching(resolved.apiIdentifier))].provider
        /\ (remembered # None
                /\ remembered.apiIdentifier = resolved.apiIdentifier) =>
              remembered.constructed = resolved.constructed

\* C3 witness: the same namespaced identifier was resolved twice.
C3_Witness ==
    /\ resolved # None
    /\ remembered # None
    /\ remembered.apiIdentifier = resolved.apiIdentifier
    /\ resolved.apiIdentifier = BedrockPrefix \o <<"x">>
    /\ resolved.constructed[1].provider = "bedrock"

-----------------------------------------------------------------------------
(* Claims about the middleware chain, checked under Spec.                  *)

IsPrefix(s, t) == Len(s) <= Len(t) /\ SubSeq(t, 1, Len(s)) = s

\* the parameters after every stage of the list, first to last, transformed them
RECURSIVE FoldParams(_, _)
FoldParams(stages, p) ==
    IF stages = <<>> THEN p
    ELSE FoldParams(Tail(stages),
                    CASE Head(stages).transformParams = Absent -> p
                      [] Head(stages).transformParams = "rag" -> p \o <<"sources">>
                      [] Head(stages).transformParams = "tag" -> p \o <<"tag">>)

\* C4: the parameters that reach the real provider call are the caller's
\* parameters folded through the configured stages' transformParams in list
\* order, each stage receiving the previous stage's output; for [A, B] they
\* equal B.transformParams(A.transformParams(original)).
C4_ParamsFoldedInListOrder ==
    \A k \in DOMAIN provider.calls :
        provider.calls[k] = FoldParams(customMiddleware, original)

\* C4 witness: with the stage list [rag, tag] the real provider was called
\* with tag(rag(original)).
C4_Witness ==
    /\ customMiddleware = <<ragMiddleware, tagMiddleware>>
    /\ original = <<"q">>
    /\ provider.calls = << <<"q", "sources", "tag">> >>

\* the configured stages that define wrapGenerate, in list order
Wrappers == SelectSeq(customMiddleware, LAMBDA st : st.wrapGenerate # Absent)

\* what the k-th wrapper's doGenerate() gives: the real result after every
\* wrapper behind it in the list has handled it, last first
RECURSIVE InnerOutcome(_, _)
InnerOutcome(k, real) ==
    IF k >= Len(Wrappers) THEN real
    ELSE LET inner == InnerOutcome(k + 1, real)
             kind == Wrappers[k + 1].wrapGenerate
         IN  CASE kind = "log" -> inner
               [] kind = "guardrail" ->
                     IF inner.ok
                     THEN [inner EXCEPT !.text =
                             [i \in DOMAIN inner.text |->
                                 IF inner.text[i] = "badword" THEN "<REDACTED>"
                                 ELSE inner.text[i]]]
                     ELSE inner
               [] kind = "recover" ->
                     IF inner.ok THEN inner ELSE Result(<<"fallback">>)

\* C5: in one generate call the wrappers start in list order, then the real
\* provider call runs, then the wrappers finish in reverse list order, and
\* each wrapper observes the outcome produced after every wrapper behind it
\* and the real call have run: the first stage is the outermost wrapper.
C5_OuterRunsOutside ==
    (pc = "done" /\ op = "generate") =>
        LET n == Len(Wrappers)
        IN  /\ Len(events) = 2 * n + 1
            /\ events[n + 1].ev = "provider"
            /\ \A k \in 1..n :
                  /\ events[k].ev = "start"
                  /\ events[k].stage = Wrappers[k].name
                  /\ events[2 * n + 2 - k].ev \in {"return", "throw"}
                  /\ events[2 * n + 2 - k].stage = Wrappers[k].name
                  /\ events[2 * n + 2 - k].saw = InnerOutcome(k, events[n + 1].saw)

\* C5 witness: with [log, guardrail] a generate call ended in which log
\* started first and finished last, and saw the text guardrail had redacted.
C5_Witness ==
    /\ customMiddleware = <<logMiddleware, guardrailMiddleware>>
    /\ pc = "done"
    /\ op = "generate"
    /\ events[1].stage = "log"
    /\ events[3].saw = Result(<<"badword">>)
    /\ events[5].stage = "log"
    /\ events[5].saw = Result(<<"<REDACTED>">>)

\* C6: with an empty stage list the wrapped handle behaves as the bare
\* model: generate gives the real result or the real error and hands the
\* caller's parameters on unchanged; stream gives the real parts in order,
\* all of them and its completion marker when it completes, its error when
\* it fails.
C6_EmptyListIsBareModel ==
    customMiddleware = <<>> =>
        /\ \A k \in DOMAIN provider.calls : provider.calls[k] = original
        /\ (pc = "done" /\ op = "generate") =>
              /\ provider.status = "returned" =>
                    (delivered.ok /\ delivered = events[1].saw)
              /\ provider.status = "rejected" =>
                    delivered = Failure(provider.error)
        /\ op = "stream" =>
              /\ IsPrefix(consumed, provider.emitted)
              /\ pc = "done" =>
                    /\ provider.status # "open"
                    /\ provider.status = "closed" =>
                          (delivered.ok /\ consumed = provider.emitted)
                    /\ provider.status = "failed" =>
                          delivered = Failure(provider.error)

\* C6 witness: with no stage a stream of two increments was read to its end.
C6_Witness ==
    /\ customMiddleware = <<>>
    /\ handle # None
    /\ pc = "done"
    /\ op = "stream"
    /\ consumed = <<TextDelta("a"), TextDelta("b"), Finish("length"), Close>>

\* C7: if the real provider's generate rejects with an error and no stage
\* catches it, generate on the handle customModel returned rejects with that
\* same error.
C7_ErrorPropagates ==
    ( /\ pc = "done"
      /\ op = "generate"
      /\ provider.status = "rejected"
      /\ \A i \in DOMAIN customMiddleware :
            customMiddleware[i].wrapGenerate # "recover" ) =>
        delivered = Failure(provider.error)

\* C7 witness: the real generate rejected with E2 under [log, guardrail] and
\* the caller got E2.
C7_Witness ==
    /\ customMiddleware = <<logMiddleware, guardrailMiddleware>>
    /\ pc = "done"
    /\ op = "generate"
    /\ provider.status = "rejected"
    /\ provider.error = "E2"
    /\ delivered = Failure("E2")

\* the image of the real model's parts under the configured wrapStream stages
MappedParts(parts) ==
    [i \in DOMAIN parts |->
        IF parts[i].type = "text-delta"
              /\ \E j \in DOMAIN customMiddleware :
                    customMiddleware[j].wrapStream = "upper"
        THEN TextDelta(CASE parts[i].textDelta = "a" -> "A"
                         [] parts[i].textDelta = "b" -> "B")
        ELSE parts[i]]

\* C8: through stages that map each text increment the consumer receives
\* exactly the mapped image of the underlying increments, same order, same
\* count, followed by the completion marker of the underlying stream.
C8_StreamIsMappedImage ==
    op = "stream" =>
        /\ IsPrefix(consumed, MappedParts(provider.emitted))
        /\ (pc = "done" /\ provider.status = "closed") =>
              consumed = MappedParts(provider.emitted)

\* C8 witness: increments a, b through [log, upper] were read as A, B and the
\* completion marker.
C8_Witness ==
    /\ customMiddleware = <<logMiddleware, upperMiddleware>>
    /\ pc = "done"
    /\ provider.emitted = <<TextDelta("a"), TextDelta("b"), Finish("stop"), Close>>
    /\ consumed = <<TextDelta("A"), TextDelta("B"), Finish("stop"), Close>>

NumCloses(parts) == Cardinality({i \in DOMAIN parts : parts[i].type = "close"})

RECURSIVE SumCloses(_)
SumCloses(i) == IF i = 0 THEN 0 ELSE NumCloses(queue[i]) + SumCloses(i - 1)

\* C9: on every wrapped stream the termination signal is passed on exactly
\* once by every stage and reaches the consumer exactly once, nothing follows
\* it, and it comes no later than the underlying stream's termination.
C9_TerminationOnce ==
    (op = "stream" /\ pc \in {"open", "done"}) =>
        /\ \A i \in DOMAIN queue :
              \A k \in DOMAIN queue[i] :
                  queue[i][k].type = "close" => k = Len(queue[i])
        /\ \A k \in DOMAIN consumed :
              consumed[k].type = "close" => k = Len(consumed)
        /\ NumCloses(consumed) + SumCloses(Len(queue)) =
              (IF provider.status = "closed" /\ \A i \in DOMAIN failed : failed[i] = "none"
               THEN 1 ELSE 0)
        /\ NumCloses(consumed) = 1 =>
              /\ pc = "done"
              /\ provider.status = "closed"
              /\ Len(consumed) <= Len(provider.emitted)
        /\ (pc = "done" /\ provider.status = "closed") => NumCloses(consumed) = 1

\* C9 witness: under a chain of two wrapping stages the consumer got the
\* termination signal after both increments.
C9_Witness ==
    /\ customMiddleware = <<upperMiddleware, logMiddleware>>
    /\ pc = "done"
    /\ op = "stream"
    /\ Len(consumed) = 4
    /\ consumed[4] = Close

\* C10 (state part): a stream whose underlying stream failed ends for the
\* consumer with that error, never with the completion marker, and while it
\* has not ended some step that carries the error on is possible.
C10_ErrorReachesConsumer ==
    (op = "stream" /\ provider.status = "failed") =>
        /\ NumCloses(consumed) = 0
        /\ pc = "done" => delivered = Failure(provider.error)
        /\ pc = "open" =>
              ENABLED (\/ Read
                       \/ ReadError
                       \/ \E i \in 1..N : StageTransform(i) \/ StageAbort(i))

\* C10 (step part): the increments already delivered stay delivered as they
\* were: the consumer's sequence only grows at its end.
C10_DeliveredKept ==
    (pc = "open" /\ op = "stream") => IsPrefix(consumed, consumed')

\* C10: if the underlying stream fails after k increments were delivered,
\* the consumer still observes the error, and the k increments remain
\* delivered exactly as they were.
C10_MidStreamFailure ==
    [] C10_ErrorReachesConsumer /\ [][C10_DeliveredKept]_vars

\* C10 witness: the underlying stream failed after the consumer had read one
\* increment through [upper], and the consumer got the error.
C10_Witness ==
    /\ customMiddleware = <<upperMiddleware>>
    /\ pc = "done"
    /\ provider.status = "failed"
    /\ consumed = <<TextDelta("A")>>
    /\ delivered = Failure("E1")

-----------------------------------------------------------------------------
(* Claims about customModel as a whole, checked under SpecFactory where a  *)
(* call throws and under Spec otherwise.                                   *)

\* the provider the registry selects for an identifier
Selected(apiIdentifier) ==
    IF Matching(apiIdentifier) = {}
    THEN "openai"
    ELSE RegisteredPrefixes[Min(Matching(apiIdentifier))].provider

\* a customModel call whose selected provider's constructor threw made that
\* one constructor call and no other, did not wrap, and threw that
\* constructor's error
C12_Failed ==
    (got # None /\ Selected(got.apiIdentifier) \in got.unconfigured) =>
        /\ Len(got.constructed) = 1
        /\ got.constructed[1].provider = Selected(got.apiIdentifier)
        /\ got.wraps = 0
        /\ got.setups = 0
        /\ got.result = Failure(CtorError(Selected(got.apiIdentifier)))

\* a customModel call that threw left the caller without a new handle
C12_NoHandle ==
    (got' # got /\ got' # None /\ ~got'.result.ok) => handle' = handle

\* C12: if the provider constructor selected for the identifier throws,
\* customModel fails synchronously with that same error: no other provider's
\* constructor is tried as a fallback, the constructor is not retried, the
\* middleware wrap is not performed and no handle is returned.
C12_ConstructorFailure == [] C12_Failed /\ [][C12_NoHandle]_vars

\* C12 witness: 'bedrock:anthropic:x' was asked for while bedrock alone was
\* not configured; the call threw bedrock's error although openai's
\* constructor would have succeeded.
C12_Witness ==
    /\ got # None
    /\ got.apiIdentifier = BedrockPrefix \o AnthropicPrefix \o <<"x">>
    /\ got.unconfigured = {"bedrock"}
    /\ got.result = Failure(CtorError("bedrock"))

\* C13: customModel resolves the identifier first and then wraps the
\* resolved model exactly once with the process-wide stage list; two calls
\* with the same identifier and the same configuration return equivalent
\* handles (same provider, same backend name, same stage list), also when
\* the first handle was used for calls in between.
C13_ResolveThenWrapOnce ==
    (got # None /\ got.result.ok) =>
        /\ Len(got.constructed) = 1
        /\ got.constructed[1].provider = Selected(got.apiIdentifier)
        /\ got.wraps = 1
        /\ got.result.handle.model = got.constructed[1]
        /\ got.result.handle.middleware = customMiddleware
        /\ handle = got.result.handle
        /\ (gotBefore # None /\ gotBefore.apiIdentifier = got.apiIdentifier) =>
              gotBefore.handle = got.result.handle

\* C13 witness: 'bedrock:anthropic:x' was asked for a second time, under a
\* configuration of two stages, and a handle was returned both times.
C13_Witness ==
    /\ got # None
    /\ got.result.ok
    /\ gotBefore # None
    /\ gotBefore.apiIdentifier = got.apiIdentifier
    /\ got.apiIdentifier = BedrockPrefix \o AnthropicPrefix \o <<"x">>
    /\ got.result.handle.model = bedrock(AnthropicPrefix \o <<"x">>)
    /\ Len(customMiddleware) = 2

\* C15: one generate or stream invocation on a wrapped handle, whose stages
\* each invoke their continuation once, invokes the real provider operation
\* exactly once, whether it succeeds or fails, and on the model the handle
\* wraps: no retry, and no second provider after a failure.
C15_ProviderInvokedOnce ==
    /\ pc \in {"idle", "down"} => provider.invoked = <<>>
    /\ pc \in {"up", "open", "done"} =>
          /\ provider.invoked = <<handle.model>>
          /\ Len(provider.calls) = 1

\* C15 witness: a generate call through two stages is over, the real model
\* rejected it and the caller got that error.
C15_Witness ==
    /\ pc = "done"
    /\ op = "generate"
    /\ N = 2
    /\ provider.status = "rejected"
    /\ delivered = Failure(provider.error)
    /\ Len(provider.calls) = 1

\* while application code has only called customModel, the real model has
\* not been invoked
C16_Untouched ==
    (pc = "idle" \/ got # None) => provider = NoProvider

\* the real model is invoked only by a step of a generate or stream call the
\* caller has started, never by a step that resolves or wraps
C16_OnlyInCall ==
    Len(provider'.invoked) > Len(provider.invoked) =>
        /\ pc = "down"
        /\ op \in {"generate", "stream"}
        /\ depth = N + 1
        /\ got' = got
        /\ handle' = handle

\* C16: the real provider's generate and stream are never invoked by
\* resolve, wrap or customModel themselves; a provider call happens only
\* after the caller invoked generate or stream on the returned handle.
C16_NoCallBeforeUse == [] C16_Untouched /\ [][C16_OnlyInCall]_vars

\* C16 witness: customModel has returned a handle wrapped by two stages and
\* the real model has received nothing.
C16_Witness ==
    /\ got # None
    /\ got.result.ok
    /\ Len(got.result.handle.middleware) = 2
    /\ provider.invoked = <<>>

\* a build in which the setup of stage `faulty` threw ran no setup after it
\* and threw that error
C17_Aborted ==
    (got # None /\ Selected(got.apiIdentifier) \notin got.unconfigured
                /\ got.faulty # 0) =>
        /\ got.setups = got.faulty
        /\ got.result = Failure(SetupError)

\* every handle the caller holds is wrapped by the whole configured list
C17_Whole ==
    handle # None => handle.middleware = customMiddleware

\* a build that threw gave the caller no handle
C17_NoPartialHandle ==
    (got' # got /\ got' # None /\ got'.faulty # 0) => handle' = handle

\* C17: if a stage's setup throws while the chain is being built, wrapping
\* fails synchronously and aborts entirely: the caller never receives a
\* handle wrapped by only a prefix or a subset of the configured stages.
C17_SetupFailureAborts ==
    [] (C17_Aborted /\ C17_Whole) /\ [][C17_NoPartialHandle]_vars

\* C17 witness: under a configuration of two stages the setup of the second
\* threw after the first had been set up; the caller still holds the fully
\* wrapped handle of an earlier call.
C17_Witness ==
    /\ got # None
    /\ got.faulty = 2
    /\ got.setups = 2
    /\ got.result = Failure(SetupError)
    /\ handle # None
    /\ Len(handle.middleware) = 2

-----------------------------------------------------------------------------
(* Claims about what the module exposes.                                   *)

\* the model objects application code can hold: the exported ones and the
\* handle customModel returned
Exposed ==
    {e.value : e \in {x \in exports : x.kind = "model"}}
        \cup (IF handle = None THEN {} ELSE {handle})

\* a model object that went through resolution and wrapping
IsWrapped(m) ==
    /\ "middleware" \in DOMAIN m
    /\ m.middleware = customMiddleware
    /\ m.model.provider \in Providers

\* C18 as stated: customModel is the sole entry point, every model object
\* the layer exposes is obtained through it and therefore wrapped, and the
\* module exposes no model object that bypasses resolution and wrapping.
C18_SoleEntryPoint ==
    /\ {e.name : e \in {x \in exports : x.kind = "function"}} = {"customModel"}
    /\ \A m \in Exposed : IsWrapped(m)

\* C18: customModel is the only function the module exports, and every model
\* object obtained through it is wrapped by the configured stages; the one
\* model object exposed without resolution and wrapping is the exported
\* constant imageGenerationModel, the openai image model 'dall-e-3'.
C18_OnlyImageModelBypasses ==
    /\ {e.name : e \in {x \in exports : x.kind = "function"}} = {"customModel"}
    /\ \A m \in Exposed : IsWrapped(m) \/ m = openai_image(<<"dall-e-3">>)
    /\ handle # None => IsWrapped(handle)
    /\ \E e \in exports : e.name = "imageGenerationModel" /\ ~IsWrapped(e.value)

\* C18 witness: application code holds a handle wrapped by two stages next
\* to the exported image model.
C18_Witness ==
    /\ handle # None
    /\ Len(handle.middleware) = 2
    /\ Cardinality(Exposed) = 2

-----------------------------------------------------------------------------
(* Claims about what calls leave alone.                                    *)

\* no step changes the configured stage list
C19_StagesKept == customMiddleware' = customMiddleware

\* the registry answers as before: a handle asked for again, whatever calls
\* were made in between, wraps the same provider model in the same stages
C19_RegistryKept ==
    (got # None /\ got.result.ok /\ gotBefore # None
        /\ gotBefore.apiIdentifier = got.apiIdentifier) =>
            /\ gotBefore.handle.model = got.result.handle.model
            /\ gotBefore.handle.middleware = got.result.handle.middleware

\* C19: the set of registered providers and the ordered middleware stage
\* list are unchanged by any sequence of customModel, generate and stream
\* calls.
C19_ConfigurationUnchanged == [][C19_StagesKept]_vars /\ [] C19_RegistryKept

\* C19 witness: after a call on an earlier handle was over, the same
\* identifier was asked for again under a configuration of two stages.
C19_Witness ==
    /\ got # None
    /\ got.result.ok
    /\ gotBefore # None
    /\ gotBefore.used
    /\ gotBefore.apiIdentifier = got.apiIdentifier
    /\ Len(customMiddleware) = 2
    /\ gotBefore.handle.middleware = customMiddleware

-----------------------------------------------------------------------------
(* Claims about the logger, checked under SpecLogger.                      *)

\* the level of each write operation
LevelOf(operation) ==
    CASE operation = "error" -> 1
      [] operation = "warn" -> 2
      [] operation = "info" -> 3
      [] operation = "debug" -> 4

\* the calls that wrote, in order
Wrote == SelectSeq(logCalls, LAMBDA c : c.wrote)

\* every call wrote exactly if the threshold is at least its level, the
\* console holds one line per call that wrote, and nothing at NONE; a call
\* that wrote implies that every call of an operation at least as severe
\* wrote too, whichever logger it was made on
C20_Filtered ==
    /\ logLevel \in 0..4
    /\ \A i \in DOMAIN logCalls :
          logCalls[i].wrote <=> logLevel >= LevelOf(logCalls[i].op)
    /\ Len(console) = Len(Wrote)
    /\ \A i \in DOMAIN console :
          /\ console[i].context = Wrote[i].context
          /\ LevelOf(Wrote[i].op) <= logLevel
    /\ logLevel = 0 => console = <<>>
    /\ \A i, j \in DOMAIN logCalls :
          (logCalls[i].wrote /\ LevelOf(logCalls[j].op) <= LevelOf(logCalls[i].op))
              => logCalls[j].wrote

\* the threshold is the one computed at module load
C20_Fixed == logLevel' = logLevel

\* C20: each of the logger's four write operations is a no-op below the
\* configured threshold: with NONE=0 < ERROR=1 < WARN=2 < INFO=3 < DEBUG=4 an
\* operation writes to the console if and only if the configured level is at
\* least its own, so at NONE nothing is written and whenever an operation
\* writes every more severe one writes too; the threshold is fixed once at
\* module load and is the same for every logger created.
C20_Threshold == [] C20_Filtered /\ [][C20_Fixed]_vars

\* C20 witness: at threshold WARN, set by LOG_LEVEL=WARN on the server, an
\* info call on one logger wrote nothing and a warn call on another logger
\* wrote its line.
C20_Witness ==
    /\ isServer
    /\ env.LOG_LEVEL = Str(<<"W", "A", "R", "N">>)
    /\ logLevel = 2
    /\ Cardinality(loggers) = 2
    /\ Len(logCalls) = 2
    /\ logCalls[1].op = "info"
    /\ logCalls[2].op = "warn"
    /\ logCalls[1].context # logCalls[2].context
    /\ Len(console) = 1
    /\ console[1].method = "console.warn"

-----------------------------------------------------------------------------
(* Claims about cancellation, checked under SpecCancel.                    *)

\* the signal the caller passed is in the parameters the real model received
C11_SignalReaches ==
    provider.calls # <<>> => abort.received

\* a real model that was still producing when the signal was aborted has
\* failed with AbortError and has produced nothing since
C11_ProviderStops ==
    (abort.aborted /\ abort.open) =>
        /\ provider.status = "failed"
        /\ provider.error = AbortError
        /\ Len(provider.emitted) = abort.emittedAt

\* no stage has failed with an error other than the cancellation, the stream
\* has not been closed as if it were complete, and what the caller finally
\* gets is the cancellation
C11_OutcomeKept ==
    (abort.aborted /\ abort.open) =>
        /\ \A i \in DOMAIN failed : failed[i] \in {"none", AbortError}
        /\ NumCloses(consumed) = 0
        /\ \A i \in DOMAIN queue : NumCloses(queue[i]) = 0
        /\ pc = "done" => delivered = Failure(AbortError)

\* every increment read after the abort had been produced before it
C11_OnlyEarlierIncrements ==
    abort.aborted =>
        NumDeltas(consumed) <= NumDeltas(SubSeq(provider.emitted, 1, abort.emittedAt))

-----------------------------------------------------------------------------
(* Claims about concurrent calls, checked under SpecConcurrent.            *)

\* what the real model answered in the running generate call
RealOutcome == (CHOOSE k \in DOMAIN events : events[k].ev = "provider")

\* the running call has, at every step, what it would have with no other
\* call in flight: the real model received this call's own parameters folded
\* through the stages, a finished generate delivered the real outcome as the
\* wrappers hand it up, a stream delivered the mapped image of the parts of
\* its own real stream, and a failure delivered is the real model's
C14_AsAlone ==
    /\ \A k \in DOMAIN provider.calls :
          provider.calls[k] = FoldParams(customMiddleware, original)
    /\ (pc = "done" /\ op = "generate") =>
          delivered = InnerOutcome(0, events[RealOutcome].saw)
    /\ op = "stream" =>
          /\ IsPrefix(consumed, MappedParts(provider.emitted))
          /\ (pc = "done" /\ provider.status = "closed") =>
                /\ consumed = MappedParts(provider.emitted)
                /\ delivered = Result(DeltasOf(consumed))
          /\ (pc = "done" /\ provider.status = "failed") =>
                delivered = Failure(provider.error)

\* a step changes the suspended caller's handle and call only by resuming
\* it, and resumes it exactly as it was suspended
C14_OtherKept ==
    parked' # parked => (parked' = Context /\ Context' = parked)

C24_NameNonEmpty ==
    (resolved # None /\ resolved.apiIdentifier # <<>>) =>
        \A i \in DOMAIN resolved.constructed :
            resolved.constructed[i].modelId # <<>>

\* C24 failing input: 'anthropic:' was resolved and the anthropic constructor
\* received ''.
C24_EmptyName ==
    /\ resolved # None
    /\ resolved.apiIdentifier = AnthropicPrefix
    /\ resolved.constructed = <<anthropic(<<>>)>>

-----------------------------------------------------------------------------
(* Claims about stages that lack hooks, checked under Spec.                *)

Hookless(stage) ==
    /\ stage.transformParams = Absent
    /\ stage.wrapGenerate = Absent
    /\ stage.wrapStream = Absent

\* the stage list without its hookless stages
Strip(stages) == SelectSeq(stages, LAMBDA st : ~Hookless(st))

\* what generate gives through a stage list, first stage outermost
RECURSIVE GenerateThrough(_, _)
GenerateThrough(stages, real) ==
    IF stages = <<>> THEN real
    ELSE LET inner == GenerateThrough(Tail(stages), real)
             kind == Head(stages).wrapGenerate
         IN  CASE kind = Absent -> inner
               [] kind = "log" -> inner
               [] kind = "guardrail" ->
                     IF inner.ok
                     THEN Result([i \in DOMAIN inner.text |->
                                     IF inner.text[i] = "badword" THEN "<REDACTED>"
                                     ELSE inner.text[i]])
                     ELSE inner
               [] kind = "recover" ->
                     IF inner.ok THEN inner ELSE Result(<<"fallback">>)

\* the stream parts as a stage list maps them
StreamThrough(stages, parts) ==
    [i \in DOMAIN parts |->
        IF parts[i].type = "text-delta"
              /\ \E j \in DOMAIN stages : stages[j].wrapStream = "upper"
        THEN TextDelta(CASE parts[i].textDelta = "a" -> "A"
                         [] parts[i].textDelta = "b" -> "B")
        ELSE parts[i]]

\* the stages whose wrapper runs in a call of the given kind, by name
WrapperNames(stages, kind) ==
    LET w == SelectSeq(stages, LAMBDA st :
                 IF kind = "generate" THEN st.wrapGenerate # Absent
                 ELSE st.wrapStream # Absent)
    IN  [i \in DOMAIN w |-> w[i].name]

\* C22 (state part): a call through the configured stage list gives what the
\* list without its hookless stages gives: the same parameters at the real
\* model, the same result or error, the same stream parts, and the same
\* stages running in the same order.
C22_AsWithoutHookless ==
    LET kept == Strip(customMiddleware)
    IN  /\ \A k \in DOMAIN provider.calls :
              provider.calls[k] = FoldParams(kept, original)
        /\ (pc = "done" /\ op = "generate") =>
              /\ delivered = GenerateThrough(kept, events[Len(WrapperNames(kept, op)) + 1].saw)
              /\ [k \in DOMAIN events |-> events[k].stage] =
                    WrapperNames(kept, op) \o <<"model">>
                        \o Reverse(WrapperNames(kept, op))
        /\ op = "stream" =>
              /\ IsPrefix(consumed, StreamThrough(kept, provider.emitted))
              /\ pc \in {"open", "done"} =>
                    [k \in DOMAIN events |-> events[k].stage] =
                        WrapperNames(kept, op) \o <<"model">>
              /\ (pc = "done" /\ provider.status = "closed") =>
                    consumed = StreamThrough(kept, provider.emitted)
              /\ (pc = "done" /\ provider.status = "failed") =>
                    delivered = Failure(provider.error)

\* C22 (step part): the step of a stage without transformParams leaves the
\* parameters as they are, and the step of a stage without the wrapper of the
\* call's kind leaves the outcome and the order of events as they are.
C22_StepTransparent ==
    (pc \in {"down", "up"} /\ depth \in 1..N /\ depth' # depth) =>
        LET stage == handle.middleware[depth]
            hook == IF op = "generate" THEN stage.wrapGenerate ELSE stage.wrapStream
        IN  /\ stage.transformParams = Absent => params' = params
            /\ hook = Absent => (events' = events /\ outcome' = outcome)

\* C22: a stage that lacks a hook is transparent for that hook, so that a
\* stage with none of the three hooks, at any position of the stage list,
\* changes neither results, errors, nor the order in which the other stages
\* run.
C22_HooklessTransparent ==
    [] C22_AsWithoutHookless /\ [][C22_StepTransparent]_vars

\* C22 witness: with [rag, {}] a generate call ended in which only the
\* parameters rag made reached the real model and its result came back as
\* it was.
C22_Witness ==
    /\ customMiddleware = <<ragMiddleware, emptyMiddleware>>
    /\ pc = "done"
    /\ op = "generate"
    /\ provider.calls = << <<"q", "sources">> >>
    /\ delivered = Result(<<"badword">>)
    /\ Len(events) = 1

-----------------------------------------------------------------------------
(* Claims about the parameters a wrapper receives, checked under Spec.     *)

\* the positions in the stage list of the stages whose wrapper runs in a
\* call of the given kind, in list order
RECURSIVE WrapperPositions(_, _, _)
WrapperPositions(stages, kind, i) ==
    IF i > Len(stages) THEN <<>>
    ELSE LET hook == IF kind = "generate" THEN stages[i].wrapGenerate
                     ELSE stages[i].wrapStream
         IN  (IF hook = Absent THEN <<>> ELSE <<i>>)
                 \o WrapperPositions(stages, kind, i + 1)

StartEvents == SelectSeq(events, LAMBDA e : e.ev = "start")

-----------------------------------------------------------------------------
(* Claims about the configured log level, checked under SpecLogger.        *)

\* two strings that differ at most in the case of their letters
SameIgnoringCase(s, t) ==
    /\ Len(s) = Len(t)
    /\ \A i \in DOMAIN s :
          \/ s[i] = t[i]
          \/ \E k \in DOMAIN LowerCase :
                {s[i], t[i]} = {LowerCase[k], UpperCase[k]}

LevelNames ==
    { [name |-> <<"D", "E", "B", "U", "G">>, level |-> DEBUG],
      [name |-> <<"I", "N", "F", "O">>, level |-> INFO],
      [name |-> <<"W", "A", "R", "N">>, level |-> WARN],
      [name |-> <<"E", "R", "R", "O", "R">>, level |-> ERROR] }

\* the level variable of the side the module was loaded on
LevelVariable == IF isServer THEN env.LOG_LEVEL ELSE env.NEXT_PUBLIC_LOG_LEVEL

\* the level names the level variable spells, case ignored
Named ==
    {n \in LevelNames :
        LevelVariable.set /\ SameIgnoringCase(LevelVariable.value, n.name)}

\* C28: if the level variable (LOG_LEVEL on the server, NEXT_PUBLIC_LOG_LEVEL
\* in the browser), compared case-insensitively, is one of DEBUG, INFO, WARN,
\* ERROR, the configured level is that level whatever NODE_ENV is; otherwise
\* it is DEBUG when NODE_ENV is 'development' and NONE in every other case;
\* it is NONE only when the variable names no level and NODE_ENV is not
\* 'development'.
C28_LevelResolved ==
    /\ \A n \in Named : logLevel = n.level
    /\ Named = {} =>
          logLevel = (IF env.NODE_ENV.set /\ env.NODE_ENV.value = Development
                      THEN DEBUG ELSE NONE)
    /\ logLevel = NONE =>
          (Named = {} /\ ~(env.NODE_ENV.set /\ env.NODE_ENV.value = Development))

\* C28 witness: in the browser, with NEXT_PUBLIC_LOG_LEVEL 'Info', LOG_LEVEL
\* 'debug' and NODE_ENV 'production', the level is INFO and a logger was
\* created under it.
C28_Witness ==
    /\ ~isServer
    /\ env.NEXT_PUBLIC_LOG_LEVEL = Str(<<"I", "n", "f", "o">>)
    /\ env.LOG_LEVEL = Str(<<"d", "e", "b", "u", "g">>)
    /\ env.NODE_ENV = Str(<<"p", "r", "o", "d", "u", "c", "t", "i", "o", "n">>)
    /\ logLevel = INFO
    /\ loggers # {}

-----------------------------------------------------------------------------
(* The static model catalog of models.ts, and its resolution.              *)

\* 'bedrock:anthropic.claude-3-haiku-20240307-v1:0'
Claude3HaikuBedrock ==
    <<"b", "e", "d", "r", "o", "c", "k", ":", "a", "n", "t", "h",
      "r", "o", "p", "i", "c", ".", "c", "l", "a", "u", "d", "e",
      "-", "3", "-", "h", "a", "i", "k", "u", "-", "2", "0", "2",
      "4", "0", "3", "0", "7", "-", "v", "1", ":", "0">>

\* 'bedrock:anthropic.claude-3-5-haiku-20241022-v1:0'
Claude35HaikuBedrock ==
    <<"b", "e", "d", "r", "o", "c", "k", ":", "a", "n", "t", "h",
      "r", "o", "p", "i", "c", ".", "c", "l", "a", "u", "d", "e",
      "-", "3", "-", "5", "-", "h", "a", "i", "k", "u", "-", "2",
      "0", "2", "4", "1", "0", "2", "2", "-", "v", "1", ":", "0">>

\* 'bedrock:anthropic.claude-3-5-sonnet-20241022-v2:0'
Claude35SonnetBedrock ==
    <<"b", "e", "d", "r", "o", "c", "k", ":", "a", "n", "t", "h",
      "r", "o", "p", "i", "c", ".", "c", "l", "a", "u", "d", "e",
      "-", "3", "-", "5", "-", "s", "o", "n", "n", "e", "t", "-",
      "2", "0", "2", "4", "1", "0", "2", "2", "-", "v", "2", ":",
      "0">>

\* 'gpt-4o-mini'
Gpt4oMini ==
    <<"g", "p", "t", "-", "4", "o", "-", "m", "i", "n", "i">>

\* 'gpt-4o'
Gpt4o ==
    <<"g", "p", "t", "-", "4", "o">>

\* 'anthropic:claude-3-5-haiku-20241022'
Claude35Haiku ==
    <<"a", "n", "t", "h", "r", "o", "p", "i", "c", ":", "c", "l",
      "a", "u", "d", "e", "-", "3", "-", "5", "-", "h", "a", "i",
      "k", "u", "-", "2", "0", "2", "4", "1", "0", "2", "2">>

\* 'anthropic:claude-3-5-sonnet-20241022'
Claude35Sonnet ==
    <<"a", "n", "t", "h", "r", "o", "p", "i", "c", ":", "c", "l",
      "a", "u", "d", "e", "-", "3", "-", "5", "-", "s", "o", "n",
      "n", "e", "t", "-", "2", "0", "2", "4", "1", "0", "2", "2">>

\* a catalog whose Claude 3.5 Haiku entry is listed under the id of the
\* Sonnet entry and whose GPT 4o mini entry names another backend model
models_edited ==
    <<
       [id |-> Claude3HaikuBedrock, label |-> "Bedrock - Claude 3 Haiku",
        apiIdentifier |-> Claude3HaikuBedrock],
       [id |-> Claude35HaikuBedrock, label |-> "Bedrock - Claude 3.5 Haiku",
        apiIdentifier |-> Claude35HaikuBedrock],
       [id |-> Claude35SonnetBedrock, label |-> "Bedrock - Claude 3.5 Sonnet V2",
        apiIdentifier |-> Claude35SonnetBedrock],
       [id |-> Gpt4oMini, label |-> "OpenAI - GPT 4o mini",
        apiIdentifier |-> Gpt4o],
       [id |-> Gpt4o, label |-> "OpenAI - GPT 4o",
        apiIdentifier |-> Gpt4o],
       [id |-> Claude35Sonnet, label |-> "Anthropic - Claude 3.5 Haiku",
        apiIdentifier |-> Claude35Haiku],
       [id |-> Claude35Sonnet, label |-> "Anthropic - Claude 3.5 Sonnet V2)",
        apiIdentifier |-> Claude35Sonnet]
    >>

\* models: the entries in the order of the file; descriptions are left out
models ==
    <<
       [id |-> Claude3HaikuBedrock, label |-> "Bedrock - Claude 3 Haiku",
        apiIdentifier |-> Claude3HaikuBedrock],
       [id |-> Claude35HaikuBedrock, label |-> "Bedrock - Claude 3.5 Haiku",
        apiIdentifier |-> Claude35HaikuBedrock],
       [id |-> Claude35SonnetBedrock, label |-> "Bedrock - Claude 3.5 Sonnet V2",
        apiIdentifier |-> Claude35SonnetBedrock],
       [id |-> Gpt4oMini, label |-> "OpenAI - GPT 4o mini",
        apiIdentifier |-> Gpt4oMini],
       [id |-> Gpt4o, label |-> "OpenAI - GPT 4o",
        apiIdentifier |-> Gpt4o],
       [id |-> Claude35Haiku, label |-> "Anthropic - Claude 3.5 Haiku",
        apiIdentifier |-> Claude35Haiku],
       [id |-> Claude35Sonnet, label |-> "Anthropic - Claude 3.5 Sonnet V2)",
        apiIdentifier |-> Claude35Sonnet]
    >>

DEFAULT_MODEL_NAME == Gpt4oMini

CatalogIdentifiers == {models[m].apiIdentifier : m \in DOMAIN models}

\* identifiers that are in no catalog entry
UnlistedIdentifiers ==
    {AnthropicPrefix \o <<"x">>, BedrockPrefix \o <<"x">>, <<"x">>, <<"g", "p", "t">>}

\* createProviderModel is called with identifiers of the catalog and with
\* unlisted ones
NextCatalog ==
    \E apiIdentifier \in CatalogIdentifiers \cup UnlistedIdentifiers :
        Resolve(apiIdentifier)

SpecCatalog == InitResolve /\ [][NextCatalog]_vars

\* the text of an identifier before its first ':'; the whole identifier when
\* it holds none
Namespace(identifier) ==
    IF \E i \in DOMAIN identifier : identifier[i] = ":"
    THEN SubSeq(identifier, 1,
                Min({i \in DOMAIN identifier : identifier[i] = ":"}) - 1)
    ELSE identifier

\* the provider an identifier's namespace names
NamedProvider(identifier) ==
    IF Namespace(identifier) = identifier THEN "openai"
    ELSE IF Namespace(identifier) = <<"b", "e", "d", "r", "o", "c", "k">> THEN "bedrock"
    ELSE IF Namespace(identifier) = <<"a", "n", "t", "h", "r", "o", "p", "i", "c">>
         THEN "anthropic"
    ELSE "openai"

\* C29: the catalog is consistent with resolution: the ids are pairwise
\* distinct, every entry's apiIdentifier equals its id, DEFAULT_MODEL_NAME is
\* the id of an entry, and every catalog apiIdentifier resolves to the
\* provider its namespace names: the 'bedrock:' entries to bedrock, the
\* 'anthropic:' entries to anthropic, the entries without prefix, the default
\* model among them, to openai.
C29_CatalogConsistent ==
    /\ \A m, n \in DOMAIN models : models[m].id = models[n].id => m = n
    /\ \A m \in DOMAIN models : models[m].apiIdentifier = models[m].id
    /\ \E m \in DOMAIN models : models[m].id = DEFAULT_MODEL_NAME
    /\ Cardinality({m \in DOMAIN models : NamedProvider(models[m].id) = "bedrock"}) = 3
    /\ Cardinality({m \in DOMAIN models : NamedProvider(models[m].id) = "anthropic"}) = 2
    /\ NamedProvider(DEFAULT_MODEL_NAME) = "openai"
    /\ (resolved # None /\ resolved.apiIdentifier \in CatalogIdentifiers) =>
          /\ Len(resolved.constructed) = 1
          /\ resolved.constructed[1].provider = NamedProvider(resolved.apiIdentifier)

\* C29 witness: the first bedrock entry, whose identifier holds the text
\* 'anthropic' and a second ':', was resolved to bedrock after the default
\* model had been resolved to openai.
C29_Witness ==
    /\ resolved # None
    /\ resolved.apiIdentifier = models[1].apiIdentifier
    /\ resolved.constructed[1].provider = "bedrock"
    /\ remembered # None
    /\ remembered.apiIdentifier = DEFAULT_MODEL_NAME
    /\ remembered.constructed[1].provider = "openai"

-----------------------------------------------------------------------------
(* The upload route: FileSchema and POST.  The route's logger writes       *)
(* nothing to the console under the environment of NoLogger (level NONE);  *)
(* its calls are kept in `trace`.                                          *)

\* 5 * 1024 * 1024, the size limit of FileSchema
MaxFileSize == 5 * 1024 * 1024

FileSizes == {0, MaxFileSize - 1, MaxFileSize, MaxFileSize + 1}
FileTypes == {"image/jpeg", "image/png", "image/gif", ""}

\* a Blob entry of the form data; formData hands it out as a File with a name
Blob(size, type) == [kind |-> "blob", size |-> size, type |-> type, name |-> "photo"]

\* a text entry of the form data
Text(value) == [kind |-> "string", size |-> 0, type |-> "", name |-> value]

\* formData.get('file') when the form has no such entry: null
NoEntry == [kind |-> "null", size |-> 0, type |-> "", name |-> ""]

FileEntries ==
    {NoEntry, Text(""), Text("photo")}
        \cup {Blob(size, type) : size \in FileSizes, type \in FileTypes}

\* the requests POST is called with: request.body null, or a body whose form
\* holds the given 'file' entry
Requests ==
    {[body |-> "null", file |-> NoEntry]}
        \cup {[body |-> "stream", file |-> e] : e \in FileEntries}

\* what auth() resolves to: null, or a session
Sessions == {None, [user |-> "u1"]}

\* the number of blobs the store takes
MaxUploads == 2

SizeMessage == "File size should be less than 5MB"
TypeMessage == "File type should be JPEG or PNG"
\* the message of z.instanceof(Blob) for a value that is no Blob
InstanceMessage == "Input not instance of Blob"

\* Array.prototype.join(',') on the error messages
RECURSIVE join(_)
join(messages) ==
    IF messages = <<>> THEN ""
    ELSE IF Len(messages) = 1 THEN messages[1]
    ELSE messages[1] \o "," \o join(Tail(messages))

\* FileSchema whose size refinement is file.size < 5 * 1024 * 1024
FileSchema_safeParse_below(file) ==
    IF file.kind # "blob"
    THEN [success |-> FALSE, errors |-> <<InstanceMessage>>]
    ELSE LET errors ==
                 (IF file.size < MaxFileSize THEN <<>> ELSE <<SizeMessage>>)
                     \o (IF file.type \in {"image/jpeg", "image/png"} THEN <<>>
                         ELSE <<TypeMessage>>)
         IN  [success |-> errors = <<>>, errors |-> errors]

\* FileSchema.safeParse({ file }): a value that is no Blob fails instanceof
\* and the refinements do not run; on a Blob both refinements run, each adding
\* its message when it fails
FileSchema_safeParse(file) ==
    IF file.kind # "blob"
    THEN [success |-> FALSE, errors |-> <<InstanceMessage>>]
    ELSE LET errors ==
                 (IF file.size <= MaxFileSize THEN <<>> ELSE <<SizeMessage>>)
                     \o (IF file.type \in {"image/jpeg", "image/png"} THEN <<>>
                         ELSE <<TypeMessage>>)
         IN  [success |-> errors = <<>>, errors |-> errors]

\* NextResponse.json({ error }, { status })
ErrorResponse(status, message) ==
    [status |-> status, kind |-> "json", error |-> message, data |-> None]

\* new Response(text, { status })
TextResponse(status, text) ==
    [status |-> status, kind |-> "text", error |-> text, data |-> None]

\* NextResponse.json(data)
DataResponse(data) ==
    [status |-> 200, kind |-> "json", error |-> "", data |-> data]

\* POST returns a response, after the calls it made on the way to it
Return(response, calls) ==
    /\ responses' = Append(responses, response)
    /\ trace' = trace \o calls
    /\ uploadPc' = "responded"

notUploadVars == <<resolveVars, chainVars, factoryVars, moduleVars, loggerVars, parked>>

\* POST(request) is called and awaits auth()
POST(r) ==
    /\ uploadPc = "idle"
    /\ Len(blobs) < MaxUploads
    /\ request' = r
    /\ session' = None
    /\ uploadPc' = "auth"
    /\ trace' = <<"auth">>
    /\ responses' = <<>>
    /\ UNCHANGED <<notUploadVars, blobs>>

\* POST that looks at the request body before it looks at the session
AuthReturns_bodyFirst(s) ==
    /\ uploadPc = "auth"
    /\ session' = s
    /\ IF request.body = "null"
       THEN Return(TextResponse(400, "Request body is empty"), <<"logger.warn">>)
       ELSE IF s = None
       THEN Return(ErrorResponse(401, "Unauthorized"), <<"logger.error">>)
       ELSE /\ uploadPc' = "formData"
            /\ trace' = Append(trace, "formData")
            /\ UNCHANGED responses
    /\ UNCHANGED <<notUploadVars, request, blobs>>

\* auth() resolves: without a session 401, with a null body 400, else POST
\* awaits request.formData()
AuthReturns(s) ==
    /\ uploadPc = "auth"
    /\ session' = s
    /\ IF s = None
       THEN Return(ErrorResponse(401, "Unauthorized"), <<"logger.error">>)
       ELSE IF request.body = "null"
       THEN Return(TextResponse(400, "Request body is empty"), <<"logger.warn">>)
       ELSE /\ uploadPc' = "formData"
            /\ trace' = Append(trace, "formData")
            /\ UNCHANGED responses
    /\ UNCHANGED <<notUploadVars, request, blobs>>

\* auth() rejects: the await is outside the try, the error leaves POST
AuthThrows ==
    /\ uploadPc = "auth"
    /\ uploadPc' = "threw"
    /\ UNCHANGED <<notUploadVars, request, session, trace, responses, blobs>>

\* POST that goes on to storage whatever safeParse says
FormDataResolves_unchecked ==
    /\ uploadPc = "formData"
    /\ LET file == request.file
           validatedFile == FileSchema_safeParse(file)
       IN  IF file = NoEntry \/ file = Text("")
           THEN Return(ErrorResponse(400, "No file uploaded"),
                       <<"formData.get", "logger.warn">>)
           ELSE /\ uploadPc' = "arrayBuffer"
                /\ trace' = trace \o <<"formData.get", "safeParse",
                                       "formData.get", "arrayBuffer">>
                /\ UNCHANGED responses
    /\ UNCHANGED <<notUploadVars, request, session, blobs>>

\* request.formData() resolves: without a 'file' entry 400, with one that
\* fails FileSchema 400 with the joined messages, else POST takes the name
\* and awaits file.arrayBuffer()
FormDataResolves ==
    /\ uploadPc = "formData"
    /\ LET file == request.file
           validatedFile == FileSchema_safeParse(file)
       IN  IF file = NoEntry \/ file = Text("")
           THEN Return(ErrorResponse(400, "No file uploaded"),
                       <<"formData.get", "logger.warn">>)
           ELSE IF ~validatedFile.success
           THEN Return(ErrorResponse(400, join(validatedFile.errors)),
                       <<"formData.get", "safeParse", "logger.warn">>)
           ELSE /\ uploadPc' = "arrayBuffer"
                /\ trace' = trace \o <<"formData.get", "safeParse",
                                       "formData.get", "arrayBuffer">>
                /\ UNCHANGED responses
    /\ UNCHANGED <<notUploadVars, request, session, blobs>>

\* request.formData() rejects: the outer catch answers
FormDataRejects ==
    /\ uploadPc = "formData"
    /\ Return(ErrorResponse(500, "Failed to process request"), <<"logger.error">>)
    /\ UNCHANGED <<notUploadVars, request, session, blobs>>

\* file.arrayBuffer() resolves: POST awaits put(filename, fileBuffer)
ArrayBufferResolves ==
    /\ uploadPc = "arrayBuffer"
    /\ uploadPc' = "put"
    /\ trace' = Append(trace, "put")
    /\ UNCHANGED <<notUploadVars, request, session, responses, blobs>>

\* file.arrayBuffer() rejects: the outer catch answers
ArrayBufferRejects ==
    /\ uploadPc = "arrayBuffer"
    /\ Return(ErrorResponse(500, "Failed to process request"), <<"logger.error">>)
    /\ UNCHANGED <<notUploadVars, request, session, blobs>>

\* put resolves: the blob is stored and POST returns its descriptor
PutResolves ==
    /\ uploadPc = "put"
    /\ LET data == [pathname |-> request.file.name, size |-> request.file.size,
                    contentType |-> request.file.type]
       IN  /\ blobs' = Append(blobs, data)
           /\ Return(DataResponse(data), <<"logger.info">>)
    /\ UNCHANGED <<notUploadVars, request, session>>

\* POST whose put call sits in the outer try alone
PutRejects_outerCatch ==
    /\ uploadPc = "put"
    /\ Return(ErrorResponse(500, "Failed to process request"), <<"logger.error">>)
    /\ UNCHANGED <<notUploadVars, request, session, blobs>>

\* put rejects: the inner catch answers, nothing is stored
PutRejects ==
    /\ uploadPc = "put"
    /\ Return(ErrorResponse(500, "Upload failed"), <<"logger.error">>)
    /\ UNCHANGED <<notUploadVars, request, session, blobs>>

\* the request is over; the route takes the next one
EndRequest ==
    /\ uploadPc \in {"responded", "threw"}
    /\ request' = None
    /\ session' = None
    /\ uploadPc' = "idle"
    /\ trace' = <<>>
    /\ responses' = <<>>
    /\ UNCHANGED <<notUploadVars, blobs>>

NextUpload ==
    \/ \E r \in Requests : POST(r)
    \/ \E s \in Sessions : AuthReturns(s)
    \/ AuthThrows
    \/ FormDataResolves
    \/ FormDataRejects
    \/ ArrayBufferResolves
    \/ ArrayBufferRejects
    \/ PutResolves
    \/ PutRejects
    \/ EndRequest

SpecUpload == InitResolve /\ [][NextUpload]_vars

\* every pending await of POST settles
SpecUploadFair ==
    /\ SpecUpload
    /\ WF_vars(FormDataResolves \/ FormDataRejects)
    /\ WF_vars(ArrayBufferResolves \/ ArrayBufferRejects)
    /\ WF_vars(PutResolves \/ PutRejects)

-----------------------------------------------------------------------------
(* Claims about the upload route, checked under SpecUpload.                *)

Called(name) == \E i \in DOMAIN trace : trace[i] = name

\* C21 (state part): when put has been called, a session exists, the request
\* body is not null, the form has a 'file' entry, and the file is a blob of
\* at most 5242880 bytes of type image/jpeg or image/png.
C21_CheckedBeforePut ==
    Called("put") =>
        /\ session # None
        /\ request.body # "null"
        /\ request.file.kind = "blob"
        /\ request.file.size <= 5242880
        /\ request.file.type \in {"image/jpeg", "image/png"}
        /\ Called("safeParse")

\* C21 (step part): the store changes only by a put call of a request that
\* passed every check, and takes that request's file.
C21_StoredOnlyChecked ==
    blobs' # blobs =>
        /\ C21_CheckedBeforePut
        /\ Called("put")
        /\ Len(blobs') = Len(blobs) + 1
        /\ blobs'[Len(blobs')].size = request.file.size
        /\ blobs'[Len(blobs')].contentType = request.file.type

\* C21: the upload route calls put only after every check has passed: a
\* session exists, the body is non-null, a 'file' entry is present and it
\* passed validation of size and type; a request failing any of these never
\* reaches storage.
C21_PutOnlyAfterChecks ==
    [] C21_CheckedBeforePut /\ [][C21_StoredOnlyChecked]_vars

\* C21 witness: a png of exactly 5242880 bytes was stored for a session and
\* its descriptor returned.
C21_Witness ==
    /\ uploadPc = "responded"
    /\ Called("put")
    /\ session # None
    /\ request.file = Blob(5242880, "image/png")
    /\ blobs # <<>>
    /\ responses = <<DataResponse(blobs[Len(blobs)])>>

BeyondAuth ==
    \/ Called("formData")
    \/ Called("formData.get")
    \/ Called("safeParse")
    \/ Called("arrayBuffer")
    \/ Called("put")

\* C25 (state part): auth() is the first call of POST and nothing else is
\* called while it is pending; a request without session is answered 401
\* 'Unauthorized' with the body not read, the file not validated and put not
\* called; a request with session and null body is answered 400 with put not
\* called.
C25_AuthFirst ==
    /\ trace # <<>> => trace[1] = "auth"
    /\ uploadPc = "auth" => trace = <<"auth">>
    /\ (uploadPc = "responded" /\ session = None) =>
          /\ responses = <<[status |-> 401, kind |-> "json",
                            error |-> "Unauthorized", data |-> None]>>
          /\ ~BeyondAuth
    /\ (uploadPc = "responded" /\ session # None /\ request.body = "null") =>
          /\ Len(responses) = 1
          /\ responses[1].status = 400
          /\ ~BeyondAuth

\* C25 (step part): nothing is stored before auth() has returned a session,
\* nor for a request whose body is null.
C25_NothingStored ==
    (uploadPc = "auth" \/ session = None \/ request.body = "null") => blobs' = blobs

\* C25: in the upload route the authentication check precedes every other
\* step: without session the response is 401 'Unauthorized' and the body is
\* not read, the file not validated and nothing stored; with a session and a
\* null body the response is 400 and nothing is stored.
C25_AuthPrecedes ==
    [] C25_AuthFirst /\ [][C25_NothingStored]_vars

\* C25 witness: a request with null body and no session was answered 401,
\* not 400.
C25_Witness ==
    /\ uploadPc = "responded"
    /\ session = None
    /\ request.body = "null"
    /\ responses[1].status = 401
    /\ trace = <<"auth", "logger.error">>

Missing(file) == file.kind = "null" \/ (file.kind = "string" /\ file.name = "")

Valid(file) ==
    /\ file.kind = "blob"
    /\ file.size <= 5242880
    /\ file.type \in {"image/jpeg", "image/png"}

ProcessFailure ==
    [status |-> 500, kind |-> "json", error |-> "Failed to process request", data |-> None]

\* C26 (state part): a request has at most one response, and has one exactly
\* when POST has returned; an exception leaves POST only out of auth().
C26_OneResponse ==
    /\ Len(responses) <= 1
    /\ uploadPc = "responded" <=> Len(responses) = 1
    /\ uploadPc = "threw" => (trace = <<"auth">> /\ responses = <<>>)
    /\ uploadPc \in {"formData", "arrayBuffer", "put"} => responses = <<>>

\* C26 (step part): what each await after auth() leads to: reading the form
\* gives 400 for a missing or invalid file or 500 'Failed to process request'
\* or goes on with a valid file; reading the file goes on or gives 500
\* 'Failed to process request'; put stores the blob and gives its descriptor,
\* or stores nothing and gives 500 'Upload failed'.
C26_Answers ==
    /\ (uploadPc = "formData" /\ uploadPc' # uploadPc) =>
          \/ uploadPc' = "arrayBuffer" /\ Valid(request.file) /\ responses' = <<>>
          \/ responses' = <<ProcessFailure>>
          \/ /\ Missing(request.file)
             /\ responses' = <<[status |-> 400, kind |-> "json",
                                error |-> "No file uploaded", data |-> None]>>
          \/ /\ ~Missing(request.file) /\ ~Valid(request.file)
             /\ Len(responses') = 1
             /\ responses'[1].status = 400
             /\ responses'[1].error \notin {"", "No file uploaded"}
    /\ (uploadPc = "arrayBuffer" /\ uploadPc' # uploadPc) =>
          \/ uploadPc' = "put" /\ responses' = <<>>
          \/ responses' = <<ProcessFailure>>
    /\ (uploadPc = "put" /\ uploadPc' # uploadPc) =>
          \/ /\ blobs' # blobs
             /\ responses' = <<[status |-> 200, kind |-> "json", error |-> "",
                                data |-> blobs'[Len(blobs')]]>>
          \/ /\ blobs' = blobs
             /\ responses' = <<[status |-> 500, kind |-> "json",
                                error |-> "Upload failed", data |-> None]>>
    /\ (uploadPc # "put" /\ uploadPc' = "responded") =>
          (responses'[1].status # 200 /\ responses'[1].error # "Upload failed")
    /\ uploadPc' = "threw" => uploadPc = "auth"

\* C26 (progress part): once auth() has returned and POST has gone on, POST
\* returns a response.
C26_Responds ==
    (uploadPc \in {"formData", "arrayBuffer", "put"}) ~> (uploadPc = "responded")

\* C26: once authentication has returned, the upload route always answers
\* with exactly one response and lets no exception escape: a missing file or
\* a failed validation gives 400, a put failure gives 500 'Upload failed', a
\* failure while reading or processing the form gives 500 'Failed to process
\* request', a successful store gives the stored descriptor; a put failure is
\* never reported as 'Failed to process request' and never as success.
C26_AlwaysOneResponse ==
    /\ [] C26_OneResponse
    /\ [][C26_Answers]_vars
    /\ C26_Responds

\* C26 witness: put failed for a valid file and the response is 500 'Upload
\* failed', with nothing stored.
C26_Witness ==
    /\ uploadPc = "responded"
    /\ Called("put")
    /\ blobs = <<>>
    /\ responses = <<ErrorResponse(500, "Upload failed")>>

\* C27: upload validation accepts a blob if and only if its size is at most
\* 5 * 1024 * 1024 bytes and its type is 'image/jpeg' or 'image/png': 5242880
\* bytes are accepted, 5242881 bytes are rejected with 'File size should be
\* less than 5MB', and a blob failing both checks is rejected with both
\* messages joined by ','.
C27_ValidationExact ==
    (Called("safeParse") /\ request.file.kind = "blob") =>
        LET file == request.file
            sizeOk == file.size <= 5242880
            typeOk == file.type = "image/jpeg" \/ file.type = "image/png"
            accepted == Called("arrayBuffer")
            rejectedWith(message) ==
                /\ ~accepted
                /\ responses = <<[status |-> 400, kind |-> "json",
                                  error |-> message, data |-> None]>>
        IN  /\ accepted <=> (sizeOk /\ typeOk)
            /\ (~sizeOk /\ typeOk) =>
                  rejectedWith("File size should be less than 5MB")
            /\ (sizeOk /\ ~typeOk) =>
                  rejectedWith("File type should be JPEG or PNG")
            /\ (~sizeOk /\ ~typeOk) =>
                  rejectedWith("File size should be less than 5MB,File type should be JPEG or PNG")
            /\ file.size = 5242880 => sizeOk
            /\ file.size = 5242881 => ~sizeOk

\* C27 witness: a gif of 5242881 bytes was rejected with both messages, and
\* before it a jpeg of 5242880 bytes had been accepted and stored.
C27_Witness ==
    /\ uploadPc = "responded"
    /\ request.file = Blob(5242881, "image/gif")
    /\ responses[1].error =
          "File size should be less than 5MB,File type should be JPEG or PNG"
    /\ blobs # <<>>
    /\ blobs[1].size = 5242880
    /\ blobs[1].contentType = "image/jpeg"

====
